---- MODULE Spec2Model ----
(***************************************************************************)
(* A model of pymsgkit: the Compound File Binary builder (pymsgkit/cfb.py) *)
(* and the MSG writer (pymsgkit/writer.py, pymsgkit/properties.py).        *)
(*                                                                         *)
(* Conventions                                                             *)
(*  - A 32-bit word is written as the integer with the same two's          *)
(*    complement bit pattern, so 0xFFFFFFFF is -1, 0xFFFFFFFE is -2 and    *)
(*    0xFFFFFFFD is -3.  LE (below) uses floor division and the            *)
(*    non-negative remainder, so LE(-1, 4) is FF FF FF FF.                 *)
(*  - Python lists are sequences; the element with Python index i is the   *)
(*    element i + 1 of the sequence.                                       *)
(*  - The content of a stream is opaque: byte i of the data handed to      *)
(*    add_stream for DID d is the pair (d, i).  A run of such bytes is a   *)
(*    slice record [buf, from, to] (Python's buf[from:to]) followed by     *)
(*    `pad` filler bytes; buf is <<"stream", d>> for the data of DID d and  *)
(*    <<"mini", 0>>, <<"dir", 0>>, <<"minifat", 0>>, <<"fat", 0>> for the  *)
(*    buffers that _write_to_stream builds.                                *)
(***************************************************************************)
EXTENDS Integers, Sequences, FiniteSets, TLC

VARIABLES
    directory_entries,  \* CFBWriter.directory_entries
    streams,            \* CFBWriter.streams, in insertion order: <<did, len(data)>>
    fat,                \* CFBWriter.fat
    mini_fat,           \* CFBWriter.mini_fat
    mini_stream_data,   \* CFBWriter.mini_stream_data, one record per 64 bytes
    file,               \* the file that write() produced last
    fin,                \* the locals of the last _write_to_stream call
    nwrites,            \* how many times write() has run on this builder
    ret,                \* the last call on the builder and how it ended
    msg                 \* the MSGWriter object: its fields, the file that save
                        \* wrote, and the last method call and how it ended

vars == <<directory_entries, streams, fat, mini_fat, mini_stream_data,
          file, fin, nwrites, ret, msg>>

----------------------------------------------------------------------------
(* Bounds of the model *)

MaxEntries == 2

MaxWrites == 2

MaxLargeEntries == 2

MaxRecipients == 2

MaxAttachments == 2

\* The longest conversation index a reply may make
MaxIndexLen == 27

----------------------------------------------------------------------------
(* Program constants *)

SECTOR_SIZE == 512

MINI_SECTOR_SIZE == 64

MINI_STREAM_CUTOFF == 4096

FATSECT == -3

ENDOFCHAIN == -2

FREESECT == -1

NOSTREAM == -1

EMPTY == 0

STORAGE == 1

STREAM == 2

ROOT == 5

BLACK == 1

NAME_MAX == 31

ENTRY_BYTES == 128

DIFAT_SLOTS == 109

HEADER_SIGNATURE == <<208, 207, 17, 224, 161, 177, 26, 225>>

----------------------------------------------------------------------------
(* Byte-level helpers: struct.pack and str.encode *)

Min(a, b) == IF a < b THEN a ELSE b

Max(a, b) == IF a < b THEN b ELSE a

\* b'\x00' * n, b'\xFF' * n: a negative count gives the empty string
Fill(byte, n) == [i \in 1..Max(n, 0) |-> byte]

\* s[:n]
Take(s, n) == SubSeq(s, 1, Min(n, Len(s)))

\* struct.pack('<I' ...), '<H', '<B', '<Q': w bytes, least significant first
RECURSIVE LE(_, _)
LE(v, w) == IF w = 0 THEN <<>> ELSE <<v % 256>> \o LE(v \div 256, w - 1)

\* One code point in UTF-16LE: two bytes, or a surrogate pair above U+FFFF
Utf16Unit(u) == <<u % 256, u \div 256>>

Utf16Char(c) ==
    IF c < 65536 THEN Utf16Unit(c)
    ELSE Utf16Unit(55296 + ((c - 65536) \div 1024))
         \o Utf16Unit(56320 + ((c - 65536) % 1024))

\* str.encode('utf-16le')
RECURSIVE Utf16le(_)
Utf16le(s) == IF s = <<>> THEN <<>> ELSE Utf16Char(Head(s)) \o Utf16le(Tail(s))

\* struct.pack('64s', b): b cut or zero-filled to n bytes
PackS(b, n) == Take(b, n) \o Fill(0, n - Len(b))

----------------------------------------------------------------------------
(* DirectoryEntry *)

\* DirectoryEntry.__init__
DirectoryEntry(name, entry_type) ==
    [name            |-> Take(name, NAME_MAX),
     entry_type      |-> entry_type,
     color           |-> BLACK,
     left_sibling    |-> NOSTREAM,
     right_sibling   |-> NOSTREAM,
     child           |-> NOSTREAM,
     clsid           |-> Fill(0, 16),
     state_bits      |-> 0,
     creation_time   |-> 0,
     modified_time   |-> 0,
     starting_sector |-> 0,
     stream_size     |-> 0]

\* The record struct.pack('<64sHBBIII16sIQQIIQ', ...) builds in to_bytes
PackedEntry(e) ==
    LET name_bytes == Utf16le(e.name)
        name_len   == Len(name_bytes) + 2
        name_field == name_bytes \o <<0, 0>> \o Fill(0, 64 - Len(name_bytes) - 2)
    IN  PackS(name_field, 64)
        \o LE(name_len, 2)
        \o LE(e.entry_type, 1)
        \o LE(e.color, 1)
        \o LE(e.left_sibling, 4)
        \o LE(e.right_sibling, 4)
        \o LE(e.child, 4)
        \o PackS(e.clsid, 16)
        \o LE(e.state_bits, 4)
        \o LE(e.creation_time, 8)
        \o LE(e.modified_time, 8)
        \o LE(e.starting_sector, 4)
        \o LE(0, 4)
        \o LE(e.stream_size, 8)

\* to_bytes without the cut to 128 bytes: the 132 bytes that the format
\* string packs
to_bytes_uncut(e) == PackedEntry(e)

\* DirectoryEntry.to_bytes
to_bytes(e) == Take(PackedEntry(e), ENTRY_BYTES)

----------------------------------------------------------------------------
(* CFBWriter: building the directory *)

\* directory_entries[did]
At(entries, did) == entries[did + 1]

\* The while loop of add_storage / add_stream: the last entry of the
\* right_sibling chain that starts at sibling_did
RECURSIVE LastSibling(_, _)
LastSibling(entries, sibling_did) ==
    IF At(entries, sibling_did).right_sibling /= NOSTREAM
    THEN LastSibling(entries, At(entries, sibling_did).right_sibling)
    ELSE sibling_did

\* "Link to parent's child chain": entries already holds the new entry at did.
\* directory_entries[parent_did] raises IndexError when parent_did is no index.
LinkToParent(entries, did, parent_did) ==
    IF parent_did >= Len(entries)
    THEN [entries |-> entries, outcome |-> "IndexError"]
    ELSE IF At(entries, parent_did).child = NOSTREAM
    THEN [entries |-> [entries EXCEPT ![parent_did + 1].child = did],
          outcome |-> "ok"]
    ELSE LET sibling_did == LastSibling(entries, At(entries, parent_did).child)
         IN  [entries |-> [entries EXCEPT ![sibling_did + 1].right_sibling = did,
                                          ![did + 1].left_sibling = sibling_did],
              outcome |-> "ok"]

\* CFBWriter.add_storage(name, parent_did) on a builder with these entries
AddStorage(entries, name, parent_did) ==
    LET entry == DirectoryEntry(name, STORAGE)
        did   == Len(entries)
    IN  LinkToParent(Append(entries, entry), did, parent_did)

\* CFBWriter.add_stream(name, data, parent_did), len(data) = size
AddStream(entries, name, size, parent_did) ==
    LET entry == [DirectoryEntry(name, STREAM) EXCEPT !.stream_size = size]
        did   == Len(entries)
    IN  LinkToParent(Append(entries, entry), did, parent_did)

----------------------------------------------------------------------------
(* CFBWriter: sector allocation *)

\* The sector count with a sector added after the last full one, whether
\* or not bytes are left for it
SectorsNeededWithPartial(n, size) == (n \div size) + 1

\* ceil(n / size) as the code computes it
SectorsNeeded(n, size) == (n + size - 1) \div size

\* _allocate_sectors_for_data with "i < sectors_needed" for the test of the
\* last sector: the last entry names the next sector, not ENDOFCHAIN
allocate_sectors_unterminated(f, n) ==
    LET sectors_needed == IF n = 0 THEN 0 ELSE SectorsNeeded(n, SECTOR_SIZE)
        base == Len(f)
    IN  [chain |-> [i \in 1..sectors_needed |-> base + (i - 1)],
         fat   |-> f \o [i \in 1..sectors_needed |-> base + (i - 1) + 1]]

\* CFBWriter._allocate_sectors_for_data on a FAT f, for len(data) = n:
\* the chain, and the FAT with the chain appended
allocate_sectors_for_data(f, n) ==
    LET sectors_needed == IF n = 0 THEN 0 ELSE SectorsNeeded(n, SECTOR_SIZE)
        base == Len(f)
    IN  [chain |-> [i \in 1..sectors_needed |-> base + (i - 1)],
         fat   |-> f \o [i \in 1..sectors_needed |->
                            IF i - 1 < sectors_needed - 1
                            THEN base + (i - 1) + 1
                            ELSE ENDOFCHAIN]]

\* One 64-byte piece of the mini stream: data[start:end] of stream did, then
\* the zero fill up to the mini-sector size
MiniChunk(did, n, i) ==
    LET start == i * MINI_SECTOR_SIZE
        end   == Min(start + MINI_SECTOR_SIZE, n)
    IN  [buf |-> <<"stream", did>>, from |-> start, to |-> end,
         pad |-> IF end - start < MINI_SECTOR_SIZE
                 THEN MINI_SECTOR_SIZE - (end - start) ELSE 0]

\* _allocate_mini_sectors_for_data with the mini-sector IDs counted from 0
\* for every stream instead of from len(self.mini_fat)
allocate_mini_sectors_from_zero(mf, msd, did, n) ==
    LET sectors_needed == IF n = 0 THEN 0 ELSE SectorsNeeded(n, MINI_SECTOR_SIZE)
    IN  [chain    |-> [i \in 1..sectors_needed |-> i - 1],
         mini_fat |-> mf \o [i \in 1..sectors_needed |->
                               IF i - 1 < sectors_needed - 1
                               THEN (i - 1) + 1
                               ELSE ENDOFCHAIN],
         mini_stream_data |->
             msd \o [i \in 1..sectors_needed |-> MiniChunk(did, n, i - 1)]]

\* CFBWriter._allocate_mini_sectors_for_data for the data of stream did
allocate_mini_sectors_for_data(mf, msd, did, n) ==
    LET sectors_needed == IF n = 0 THEN 0 ELSE SectorsNeeded(n, MINI_SECTOR_SIZE)
        base == Len(mf)
    IN  [chain    |-> [i \in 1..sectors_needed |-> base + (i - 1)],
         mini_fat |-> mf \o [i \in 1..sectors_needed |->
                               IF i - 1 < sectors_needed - 1
                               THEN base + (i - 1) + 1
                               ELSE ENDOFCHAIN],
         mini_stream_data |->
             msd \o [i \in 1..sectors_needed |-> MiniChunk(did, n, i - 1)]]

\* The loop body with "<=" for "<" in the test against MINI_STREAM_CUTOFF
PlaceStreamCutoffInclusive(st, did, n) ==
    IF n <= MINI_STREAM_CUTOFF
    THEN LET r == allocate_mini_sectors_for_data(st.mini_fat, st.mini_stream_data, did, n)
         IN  [st EXCEPT
                !.mini_fat = r.mini_fat,
                !.mini_stream_data = r.mini_stream_data,
                !.entries = IF r.chain /= <<>>
                            THEN [@ EXCEPT ![did + 1].starting_sector = r.chain[1]]
                            ELSE @]
    ELSE LET r == allocate_sectors_for_data(st.fat, n)
         IN  [st EXCEPT
                !.fat = r.fat,
                !.entries = IF r.chain /= <<>>
                            THEN [@ EXCEPT ![did + 1].starting_sector = r.chain[1]]
                            ELSE @,
                !.stream_sectors =
                    IF r.chain /= <<>>
                    THEN Append(@, [key |-> did, buf |-> <<"stream", did>>,
                                    len |-> n, sectors |-> r.chain])
                    ELSE @]

\* One pass of the loop "for did, data in self.streams.items()" of
\* _write_to_stream; st holds entries, fat, mini_fat, mini_stream_data and
\* the local stream_sectors (a dict, kept as its items in insertion order)
PlaceStream(st, did, n) ==
    IF n < MINI_STREAM_CUTOFF
    THEN LET r == allocate_mini_sectors_for_data(st.mini_fat, st.mini_stream_data, did, n)
         IN  [st EXCEPT
                !.mini_fat = r.mini_fat,
                !.mini_stream_data = r.mini_stream_data,
                !.entries = IF r.chain /= <<>>
                            THEN [@ EXCEPT ![did + 1].starting_sector = r.chain[1]]
                            ELSE @]
    ELSE LET r == allocate_sectors_for_data(st.fat, n)
         IN  [st EXCEPT
                !.fat = r.fat,
                !.entries = IF r.chain /= <<>>
                            THEN [@ EXCEPT ![did + 1].starting_sector = r.chain[1]]
                            ELSE @,
                !.stream_sectors =
                    IF r.chain /= <<>>
                    THEN Append(@, [key |-> did, buf |-> <<"stream", did>>,
                                    len |-> n, sectors |-> r.chain])
                    ELSE @]

RECURSIVE PlaceStreams(_, _, _)
PlaceStreams(st, strs, k) ==
    IF k > Len(strs) THEN st
    ELSE PlaceStreams(PlaceStream(st, strs[k][1], strs[k][2]), strs, k + 1)

\* "Store mini stream in root entry if we have mini streams"
PlaceMiniStream(st) ==
    IF st.mini_stream_data /= <<>>
    THEN LET n == MINI_SECTOR_SIZE * Len(st.mini_stream_data)
             r == allocate_sectors_for_data(st.fat, n)
         IN  IF r.chain /= <<>>
             THEN [st EXCEPT
                     !.fat = r.fat,
                     !.entries = [@ EXCEPT ![1].starting_sector = r.chain[1],
                                           ![1].stream_size = n],
                     !.stream_sectors =
                         Append(@, [key |-> -1, buf |-> <<"mini", 0>>,
                                    len |-> n, sectors |-> r.chain])]
             ELSE [st EXCEPT !.fat = r.fat]
    ELSE st

\* The 0xFF fill that brings n bytes to a sector boundary
BoundaryPad(n) == (SECTOR_SIZE - (n % SECTOR_SIZE)) % SECTOR_SIZE

\* sum(ns[lo:hi + 1]) for a sequence of numbers, summed by halves
RECURSIVE SumRange(_, _, _)
SumRange(ns, lo, hi) ==
    IF lo > hi THEN 0
    ELSE IF lo = hi THEN ns[lo]
    ELSE SumRange(ns, lo, (lo + hi) \div 2) + SumRange(ns, ((lo + hi) \div 2) + 1, hi)

\* len(b''.join(seqs))
SumLen(seqs) == SumRange([k \in 1..Len(seqs) |-> Len(seqs[k])], 1, Len(seqs))

\* The parts of dir_data: b''.join(entry.to_bytes() for entry in ...)
DirImages(entries) == [k \in 1..Len(entries) |-> to_bytes(entries[k])]

\* dir_data: the entries serialized (entries is kept, DirImages gives the
\* bytes), the number of 0xFF bytes after them, and len(dir_data)
DirData(entries) ==
    LET images == DirImages(entries)
        n == SumLen(images)
    IN  [entries |-> entries, pad |-> BoundaryPad(n), len |-> n + BoundaryPad(n)]

\* "Allocate sectors for directory entries"
PlaceDirectory(st) ==
    LET dir_data == DirData(st.entries)
        r == allocate_sectors_for_data(st.fat, dir_data.len)
    IN  [st EXCEPT
           !.fat = r.fat,
           !.dir_data = dir_data,
           !.dir_sectors = r.chain,
           !.stream_sectors = Append(@, [key |-> -2, buf |-> <<"dir", 0>>,
                                         len |-> dir_data.len, sectors |-> r.chain])]

\* "Allocate sectors for Mini FAT if needed"
PlaceMiniFat(st) ==
    IF st.mini_fat /= <<>>
    THEN LET n == 4 * Len(st.mini_fat)
             mini_fat_data == [entries |-> st.mini_fat, pad |-> BoundaryPad(n),
                               len |-> n + BoundaryPad(n)]
             r == allocate_sectors_for_data(st.fat, mini_fat_data.len)
         IN  IF r.chain /= <<>>
             THEN [st EXCEPT
                     !.fat = r.fat,
                     !.mini_fat_data = mini_fat_data,
                     !.mini_fat_start_sector = r.chain[1],
                     !.num_mini_fat_sectors = Len(r.chain),
                     !.stream_sectors =
                         Append(@, [key |-> -3, buf |-> <<"minifat", 0>>,
                                    len |-> mini_fat_data.len, sectors |-> r.chain])]
             ELSE [st EXCEPT !.fat = r.fat, !.mini_fat_data = mini_fat_data]
    ELSE st

\* fat_entries_per_sector
FatEntriesPerSector == SECTOR_SIZE \div 4

\* num_fat_sectors, from len(self.fat) before the FAT's own sectors are added
NumFatSectors(n) == (n + FatEntriesPerSector - 1) \div FatEntriesPerSector

\* "Allocate sectors for FAT" with the FAT sectors marked ENDOFCHAIN
PlaceFatUnmarked(st) ==
    LET num_fat_sectors == NumFatSectors(Len(st.fat))
        base == Len(st.fat)
    IN  [st EXCEPT
           !.num_fat_sectors = num_fat_sectors,
           !.fat_sector_ids = [i \in 1..num_fat_sectors |-> base + (i - 1)],
           !.fat = @ \o [i \in 1..num_fat_sectors |-> ENDOFCHAIN]]

\* "Allocate sectors for FAT": the FAT sectors take the next IDs and are
\* marked FATSECT
PlaceFat(st) ==
    LET num_fat_sectors == NumFatSectors(Len(st.fat))
        base == Len(st.fat)
    IN  [st EXCEPT
           !.num_fat_sectors = num_fat_sectors,
           !.fat_sector_ids = [i \in 1..num_fat_sectors |-> base + (i - 1)],
           !.fat = @ \o [i \in 1..num_fat_sectors |-> FATSECT]]

----------------------------------------------------------------------------
(* CFBWriter: the header and the sectors of the file *)

\* _write_header with the DIFAT slots filled from the second FAT sector on
write_header_difat_shifted(dir_start_sector, fat_sectors, mini_fat_start, num_mini_fat_sectors) ==
    << [field |-> "signature",            width |-> Len(HEADER_SIGNATURE), value |-> HEADER_SIGNATURE],
       [field |-> "clsid",                width |-> 16, value |-> Fill(0, 16)],
       [field |-> "minor_version",        width |-> 2,  value |-> LE(62, 2)],
       [field |-> "major_version",        width |-> 2,  value |-> LE(3, 2)],
       [field |-> "byte_order",           width |-> 2,  value |-> LE(65534, 2)],
       [field |-> "sector_shift",         width |-> 2,  value |-> LE(9, 2)],
       [field |-> "mini_sector_shift",    width |-> 2,  value |-> LE(6, 2)],
       [field |-> "reserved",             width |-> 6,  value |-> Fill(0, 6)],
       [field |-> "num_dir_sectors",      width |-> 4,  value |-> LE(0, 4)],
       [field |-> "num_fat_sectors",      width |-> 4,  value |-> LE(Len(fat_sectors), 4)],
       [field |-> "first_dir_sector",     width |-> 4,  value |-> LE(dir_start_sector, 4)],
       [field |-> "transaction",          width |-> 4,  value |-> LE(0, 4)],
       [field |-> "mini_stream_cutoff",   width |-> 4,  value |-> LE(MINI_STREAM_CUTOFF, 4)],
       [field |-> "first_mini_fat_sector", width |-> 4, value |-> LE(mini_fat_start, 4)],
       [field |-> "num_mini_fat_sectors", width |-> 4,  value |-> LE(num_mini_fat_sectors, 4)],
       [field |-> "first_difat_sector",   width |-> 4,  value |-> LE(ENDOFCHAIN, 4)],
       [field |-> "num_difat_sectors",    width |-> 4,  value |-> LE(0, 4)] >>
    \o [i \in 1..DIFAT_SLOTS |->
          [field |-> "difat", width |-> 4,
           value |-> IF i < Len(fat_sectors)
                     THEN LE(fat_sectors[i + 1], 4) ELSE LE(FREESECT, 4)]]

\* CFBWriter._write_header: the f.write calls in order, each with the bytes
\* it writes; the last 109 are the slots of the DIFAT array
write_header(dir_start_sector, fat_sectors, mini_fat_start, num_mini_fat_sectors) ==
    << [field |-> "signature",            width |-> Len(HEADER_SIGNATURE), value |-> HEADER_SIGNATURE],
       [field |-> "clsid",                width |-> 16, value |-> Fill(0, 16)],
       [field |-> "minor_version",        width |-> 2,  value |-> LE(62, 2)],
       [field |-> "major_version",        width |-> 2,  value |-> LE(3, 2)],
       [field |-> "byte_order",           width |-> 2,  value |-> LE(65534, 2)],
       [field |-> "sector_shift",         width |-> 2,  value |-> LE(9, 2)],
       [field |-> "mini_sector_shift",    width |-> 2,  value |-> LE(6, 2)],
       [field |-> "reserved",             width |-> 6,  value |-> Fill(0, 6)],
       [field |-> "num_dir_sectors",      width |-> 4,  value |-> LE(0, 4)],
       [field |-> "num_fat_sectors",      width |-> 4,  value |-> LE(Len(fat_sectors), 4)],
       [field |-> "first_dir_sector",     width |-> 4,  value |-> LE(dir_start_sector, 4)],
       [field |-> "transaction",          width |-> 4,  value |-> LE(0, 4)],
       [field |-> "mini_stream_cutoff",   width |-> 4,  value |-> LE(MINI_STREAM_CUTOFF, 4)],
       [field |-> "first_mini_fat_sector", width |-> 4, value |-> LE(mini_fat_start, 4)],
       [field |-> "num_mini_fat_sectors", width |-> 4,  value |-> LE(num_mini_fat_sectors, 4)],
       [field |-> "first_difat_sector",   width |-> 4,  value |-> LE(ENDOFCHAIN, 4)],
       [field |-> "num_difat_sectors",    width |-> 4,  value |-> LE(0, 4)] >>
    \o [i \in 1..DIFAT_SLOTS |->
          [field |-> "difat", width |-> 4,
           value |-> IF i - 1 < Len(fat_sectors)
                     THEN LE(fat_sectors[i], 4) ELSE LE(FREESECT, 4)]]

\* "Add stream sectors" without the zero fill of the last chunk
StreamSectorPayloadUnpadded(item, i) ==
    LET start == i * SECTOR_SIZE
        end   == Min(start + SECTOR_SIZE, item.len)
    IN  [buf |-> item.buf, from |-> start, to |-> end, pad |-> 0]

\* "Add stream sectors": the payload stored for the i-th sector of item
\* (i counted from 0): data[start:end], then the zero fill to the sector size
StreamSectorPayload(item, i) ==
    LET start == i * SECTOR_SIZE
        end   == Min(start + SECTOR_SIZE, item.len)
    IN  [buf |-> item.buf, from |-> start, to |-> end,
         pad |-> SECTOR_SIZE - (end - start)]

\* The pairs <<sector_id, payload>> that one item of stream_sectors puts into
\* sector_data
ItemSectors(item) ==
    [i \in 1..Len(item.sectors) |-> <<item.sectors[i], StreamSectorPayload(item, i - 1)>>]

RECURSIVE StreamSectorData(_, _)
StreamSectorData(stream_sectors, k) ==
    IF k > Len(stream_sectors) THEN <<>>
    ELSE ItemSectors(stream_sectors[k]) \o StreamSectorData(stream_sectors, k + 1)

\* fat_data: the FAT's entries, then the FREESECT entries that fill the FAT
\* sectors (a negative count adds none)
FatData(f, num_fat_sectors) ==
    f \o Fill(FREESECT, num_fat_sectors * FatEntriesPerSector - Len(f))

\* "Add FAT sectors": fat_data[start:end] for the i-th FAT sector (from 0)
FatSectorPayload(fat_data, i) ==
    LET start == i * SECTOR_SIZE
        end   == start + SECTOR_SIZE
    IN  [buf |-> <<"fat", 0>>, from |-> Min(start, 4 * Len(fat_data)),
         to |-> Min(end, 4 * Len(fat_data)), pad |-> 0]

FatSectorData(fat_sector_ids, fat_data) ==
    [i \in 1..Len(fat_sector_ids) |-> <<fat_sector_ids[i], FatSectorPayload(fat_data, i - 1)>>]

\* The order of sorted(sector_data.keys())
SectorIdBefore(a, b) == a[1] < b[1]

\* "Write sectors in order": sector_data as its items sorted by sector ID.
\* Every sector ID comes from len(self.fat) at its allocation, so no key is
\* stored twice and the sorted items are the dict's sorted keys.
SortedSectorData(sector_data) == SortSeq(sector_data, SectorIdBefore)

\* The allocations with the directory placed before the mini-stream
\* container
PlaceAllDirectoryFirst(st, strs) ==
    PlaceFat(PlaceMiniFat(PlaceMiniStream(PlaceDirectory(PlaceStreams(st, strs, 1)))))

\* The allocations of _write_to_stream in the order of the code: the loop
\* over self.streams, the mini-stream container, the directory, the MiniFAT,
\* the FAT
PlaceAll(st, strs) ==
    PlaceFat(PlaceMiniFat(PlaceDirectory(PlaceMiniStream(PlaceStreams(st, strs, 1)))))

\* The number of bytes a payload writes
PayloadLen(p) == (p.to - p.from) + p.pad

\* CFBWriter._write_to_stream on the builder whose fields are in b: the
\* builder's fields afterwards, the locals, and what was written: the
\* arguments of the _write_header call (FileHeader gives the bytes), then
\* the sectors
write_to_stream(b) ==
    LET st0 == [entries |-> b.directory_entries, fat |-> b.fat,
                mini_fat |-> b.mini_fat, mini_stream_data |-> b.mini_stream_data,
                stream_sectors |-> <<>>,
                dir_data |-> [entries |-> <<>>, pad |-> 0, len |-> 0],
                dir_sectors |-> <<>>,
                mini_fat_data |-> [entries |-> <<>>, pad |-> 0, len |-> 0],
                mini_fat_start_sector |-> ENDOFCHAIN,
                num_mini_fat_sectors |-> 0,
                num_fat_sectors |-> 0,
                fat_sector_ids |-> <<>>]
        st5 == PlaceAll(st0, b.streams)
        fat_data == FatData(st5.fat, st5.num_fat_sectors)
        sector_data == StreamSectorData(st5.stream_sectors, 1)
                       \o FatSectorData(st5.fat_sector_ids, fat_data)
        sorted == SortedSectorData(sector_data)
    IN  [directory_entries |-> st5.entries,
         fat               |-> st5.fat,
         mini_fat          |-> st5.mini_fat,
         mini_stream_data  |-> st5.mini_stream_data,
         locals |-> [stream_sectors        |-> st5.stream_sectors,
                     dir_data              |-> st5.dir_data,
                     dir_sectors           |-> st5.dir_sectors,
                     mini_fat_data         |-> st5.mini_fat_data,
                     mini_fat_start_sector |-> st5.mini_fat_start_sector,
                     num_mini_fat_sectors  |-> st5.num_mini_fat_sectors,
                     num_fat_sectors       |-> st5.num_fat_sectors,
                     fat_sector_ids        |-> st5.fat_sector_ids],
         written |-> [exists  |-> TRUE,
                      header  |-> [dir_start_sector     |-> st5.dir_sectors[1],
                                   fat_sectors          |-> st5.fat_sector_ids,
                                   mini_fat_start       |-> st5.mini_fat_start_sector,
                                   num_mini_fat_sectors |-> st5.num_mini_fat_sectors],
                      ids     |-> [k \in 1..Len(sorted) |-> sorted[k][1]],
                      sectors |-> [k \in 1..Len(sorted) |-> sorted[k][2]]]]

----------------------------------------------------------------------------
(* MSGWriter: construction *)

PT_LONG == 3

PT_BOOLEAN == 11

PT_UNICODE == 31

PT_SYSTIME == 64

\* class PropertyTag: the attributes the class defines
PropertyTag ==
    [
     PR_MESSAGE_CLASS |-> 26,
     PR_SUBJECT |-> 55,
     PR_CONVERSATION_TOPIC |-> 112,
     PR_CONVERSATION_INDEX |-> 113,
     PR_IMPORTANCE |-> 23,
     PR_PRIORITY |-> 38,
     PR_SENSITIVITY |-> 54,
     PR_MESSAGE_FLAGS |-> 3591,
     PR_MESSAGE_SIZE |-> 3592,
     PR_CLIENT_SUBMIT_TIME |-> 57,
     PR_MESSAGE_DELIVERY_TIME |-> 3590,
     PR_CREATION_TIME |-> 12295,
     PR_LAST_MODIFICATION_TIME |-> 12296,
     PR_BODY |-> 4096,
     PR_HTML |-> 4115,
     PR_RTF_COMPRESSED |-> 4105,
     PR_BODY_CONTENT_LOCATION |-> 4116,
     PR_BODY_CONTENT_ID |-> 4117,
     PR_TRANSPORT_MESSAGE_HEADERS |-> 125,
     PR_INTERNET_MESSAGE_ID |-> 4149,
     PR_IN_REPLY_TO_ID |-> 4162,
     PR_INTERNET_REFERENCES |-> 4153,
     PR_SENDER_NAME |-> 3098,
     PR_SENDER_EMAIL_ADDRESS |-> 3103,
     PR_SENDER_ADDRTYPE |-> 3102,
     PR_SENDER_ENTRYID |-> 3097,
     PR_SENDER_SEARCH_KEY |-> 3101,
     PR_SENT_REPRESENTING_NAME |-> 66,
     PR_SENT_REPRESENTING_EMAIL_ADDRESS |-> 101,
     PR_SENT_REPRESENTING_ADDRTYPE |-> 100,
     PR_SENT_REPRESENTING_ENTRYID |-> 65,
     PR_SENT_REPRESENTING_SEARCH_KEY |-> 59,
     PR_RECIPIENT_TYPE |-> 3093,
     PR_DISPLAY_NAME |-> 12289,
     PR_EMAIL_ADDRESS |-> 12291,
     PR_ADDRTYPE |-> 12290,
     PR_ENTRYID |-> 4095,
     PR_SEARCH_KEY |-> 12299,
     PR_SMTP_ADDRESS |-> 14846,
     PR_OBJECT_TYPE |-> 4094,
     PR_DISPLAY_TYPE |-> 14592,
     PR_DISPLAY_TO |-> 3588,
     PR_DISPLAY_CC |-> 3587,
     PR_DISPLAY_BCC |-> 3586,
     PR_ATTACH_NUM |-> 3617,
     PR_ATTACH_SIZE |-> 3616,
     PR_ATTACH_FILENAME |-> 14084,
     PR_ATTACH_LONG_FILENAME |-> 14087,
     PR_ATTACH_EXTENSION |-> 14083,
     PR_ATTACH_METHOD |-> 14085,
     PR_ATTACH_DATA_BIN |-> 14081,
     PR_ATTACH_DATA_OBJ |-> 14081,
     PR_ATTACH_MIME_TAG |-> 14094,
     PR_ATTACH_CONTENT_ID |-> 14098,
     PR_ATTACH_CONTENT_LOCATION |-> 14099,
     PR_RENDERING_POSITION |-> 14091,
     PR_ATTACHMENT_HIDDEN |-> 32766,
     PR_ATTACHMENT_FLAGS |-> 14100,
     PR_MAPPING_SIGNATURE |-> 4088,
     PR_RECORD_KEY |-> 4089,
     PR_STORE_RECORD_KEY |-> 4090,
     PR_STORE_ENTRYID |-> 4091,
     PR_OBJECT_TYPE_PROP |-> 4094,
     PR_HASATTACH |-> 3611,
     PR_MESSAGE_CODEPAGE |-> 16381,
     PR_INTERNET_CPID |-> 16350,
     PR_MESSAGE_LOCALE_ID |-> 16369,
     PR_CREATOR_NAME |-> 16376,
     PR_CREATOR_ENTRYID |-> 16377,
     PR_LAST_MODIFIER_NAME |-> 16378,
     PR_LAST_MODIFIER_ENTRYID |-> 16379,
     PR_READ_RECEIPT_REQUESTED |-> 41,
     PR_ORIGINATOR_DELIVERY_REPORT_REQUESTED |-> 35,
     PR_REPLY_RECIPIENT_ENTRIES |-> 79,
     PR_REPLY_RECIPIENT_NAMES |-> 80,
     PR_MSG_STATUS |-> 3607,
     PR_MESSAGE_FLAGS_2 |-> 3607
    ]

\* MSGWriter.set_property: the map with Property(tag, prop_type, value) at tag
set_property(properties, tag, prop_type, value) ==
    [t \in (DOMAIN properties) \cup {tag} |->
        IF t = tag THEN [tag |-> tag, prop_type |-> prop_type, value |-> value]
        ELSE properties[t]]

\* The set_property calls of MSGWriter._set_default_properties, in order,
\* each with the PropertyTag attribute it reads; now is datetime.now(utc)
DefaultProperties(now) ==
    << [attr |-> "PR_MESSAGE_CLASS",          prop_type |-> PT_UNICODE, value |-> <<73, 80, 77, 46, 78, 111, 116, 101>>],
       [attr |-> "PR_MESSAGE_FLAGS",          prop_type |-> PT_LONG,    value |-> 0],
       [attr |-> "PR_CLIENT_SUBMIT_TIME",     prop_type |-> PT_SYSTIME, value |-> now],
       [attr |-> "PR_MESSAGE_DELIVERY_TIME",  prop_type |-> PT_SYSTIME, value |-> now],
       [attr |-> "PR_CREATION_TIME",          prop_type |-> PT_SYSTIME, value |-> now],
       [attr |-> "PR_LAST_MODIFICATION_TIME", prop_type |-> PT_SYSTIME, value |-> now],
       [attr |-> "PR_IMPORTANCE",             prop_type |-> PT_LONG,    value |-> 1],
       [attr |-> "PR_PRIORITY",               prop_type |-> PT_LONG,    value |-> 0],
       [attr |-> "PR_SENSITIVITY",            prop_type |-> PT_LONG,    value |-> 0],
       [attr |-> "PR_HASATTACH",              prop_type |-> PT_BOOLEAN, value |-> FALSE],
       [attr |-> "PR_MESSAGE_CODEPAGE",       prop_type |-> PT_LONG,    value |-> 65001],
       [attr |-> "PR_INTERNET_CPID",          prop_type |-> PT_LONG,    value |-> 65001],
       [attr |-> "PR_MESSAGE_LOCALE_ID",      prop_type |-> PT_LONG,    value |-> 1033],
       [attr |-> "PR_STORE_SUPPORT_MASK",     prop_type |-> PT_LONG,    value |-> 262144],
       [attr |-> "PR_READ_RECEIPT_REQUESTED", prop_type |-> PT_BOOLEAN, value |-> FALSE],
       [attr |-> "PR_ORIGINATOR_DELIVERY_REPORT_REQUESTED",
                                              prop_type |-> PT_BOOLEAN, value |-> FALSE],
       [attr |-> "PR_MSG_STATUS",             prop_type |-> PT_LONG,    value |-> 0] >>

\* MSGWriter._set_default_properties from its k-th call on: reading an
\* attribute that class PropertyTag does not define raises AttributeError
\* and ends the method
RECURSIVE set_default_properties(_, _, _)
set_default_properties(properties, calls, k) ==
    IF k > Len(calls) THEN [properties |-> properties, error |-> "none"]
    ELSE IF calls[k].attr \notin DOMAIN PropertyTag
    THEN [properties |-> properties, error |-> "AttributeError"]
    ELSE set_default_properties(
             set_property(properties, PropertyTag[calls[k].attr],
                          calls[k].prop_type, calls[k].value),
             calls, k + 1)

\* No file at the path
NoFile ==
    [exists |-> FALSE,
     header |-> [dir_start_sector |-> 0, fat_sectors |-> <<>>,
                 mini_fat_start |-> ENDOFCHAIN, num_mini_fat_sectors |-> 0],
     ids |-> <<>>, sectors |-> <<>>]

\* No method of the writer was called yet
NoCall == [op |-> "none", outcome |-> "none", arg |-> <<>>]

\* "Root Entry"
RootName == <<82, 111, 111, 116, 32, 69, 110, 116, 114, 121>>

\* CFBWriter.__init__: the fields of a new builder
CFBWriterInit ==
    [directory_entries |-> <<DirectoryEntry(RootName, ROOT)>>,
     streams           |-> <<>>,
     fat               |-> <<>>,
     mini_fat          |-> <<>>,
     mini_stream_data  |-> <<>>]

\* MSGWriter.__init__ at the instant now: the object's fields when __init__
\* ends, and the exception it ends with, if any
MSGWriterInit(now) ==
    LET d == set_default_properties(<<>>, DefaultProperties(now), 1)
    IN  [stage       |-> IF d.error = "none" THEN "constructed" ELSE "raised",
         error       |-> d.error,
         cfb         |-> CFBWriterInit,
         properties  |-> d.properties,
         recipients  |-> <<>>,
         attachments |-> <<>>,
         file        |-> NoFile,
         last        |-> NoCall]

----------------------------------------------------------------------------
(* MSGWriter: strings, property values and their encoding                  *)
(* A str is the sequence of its code points, a bytes object the sequence   *)
(* of its bytes; every property of the model holds a value of the Python   *)
(* type its prop_type is meant for (str for PT_UNICODE, bytes for          *)
(* PT_BINARY, int for PT_LONG, bool for PT_BOOLEAN, datetime for           *)
(* PT_SYSTIME).  A datetime is the number of seconds from 1601-01-01 UTC.  *)

PT_BINARY == 258

TO == 1

CC == 2

BCC == 3

BY_VALUE == 1

MSGFLAG_HASATTACH == 16

MSGFLAG_READ == 1

\* None
None == <<-1>>

\* The characters c with c.isspace(), which str.strip() removes
Whitespace ==
    (9..13) \cup (28..32) \cup {133, 160, 5760} \cup (8192..8202)
    \cup {8232, 8233, 8239, 8287, 12288}

\* s.startswith(p)
StartsWith(s, p) == Len(s) >= Len(p) /\ SubSeq(s, 1, Len(p)) = p

\* s[n:]
Drop(s, n) == SubSeq(s, n + 1, Len(s))

\* s.strip()
RECURSIVE Strip(_)
Strip(s) ==
    IF s = <<>> THEN s
    ELSE IF Head(s) \in Whitespace THEN Strip(Tail(s))
    ELSE IF s[Len(s)] \in Whitespace THEN Strip(SubSeq(s, 1, Len(s) - 1))
    ELSE s

\* sep.join(strs)
RECURSIVE Join(_, _)
Join(strs, sep) ==
    IF strs = <<>> THEN <<>>
    ELSE IF Len(strs) = 1 THEN strs[1]
    ELSE strs[1] \o sep \o Join(Tail(strs), sep)

\* s.upper(), for the characters up to U+00FF that have an upper case there
Upper(s) ==
    [i \in 1..Len(s) |->
        IF s[i] \in 97..122 \/ s[i] \in (224..254) \ {247} THEN s[i] - 32 ELSE s[i]]

\* s.encode('ascii'): UnicodeEncodeError for a character above U+007F
EncodeAscii(s) ==
    IF \A i \in 1..Len(s) : s[i] < 128
    THEN [error |-> "none", bytes |-> s]
    ELSE [error |-> "UnicodeEncodeError", bytes |-> <<>>]

\* The index of the first c in s, 0 when there is none
RECURSIVE Find(_, _, _)
Find(s, c, i) ==
    IF i > Len(s) THEN 0 ELSE IF s[i] = c THEN i ELSE Find(s, c, i + 1)

\* The index of the last c in s, 0 when there is none
RECURSIVE RFind(_, _, _)
RFind(s, c, i) ==
    IF i < 1 THEN 0 ELSE IF s[i] = c THEN i ELSE RFind(s, c, i - 1)

\* email.split('@')[1]: what lies between the first '@' and the next
AfterAt(email) ==
    LET rest == Drop(email, Find(email, 64, 1))
        stop == Find(rest, 64, 1)
    IN  IF stop = 0 THEN rest ELSE SubSeq(rest, 1, stop - 1)

\* os.path.splitext(filename)[1]: from the last dot of the last path
\* component on, unless only dots precede it in that component
splitext(filename) ==
    LET sep       == RFind(filename, 47, Len(filename))
        dot       == RFind(filename, 46, Len(filename))
        lead_dots == \A i \in (sep + 1)..(dot - 1) : filename[i] = 46
    IN  IF dot > sep /\ ~lead_dots THEN Drop(filename, dot - 1) ELSE <<>>

\* One hexadecimal digit, upper case
HexDigit(d) == IF d < 10 THEN 48 + d ELSE 55 + d

\* f"{v:0wX}": at least w hexadecimal digits, upper case
RECURSIVE Hex(_, _)
Hex(v, w) ==
    IF w <= 1 /\ v < 16 THEN <<HexDigit(v)>>
    ELSE Hex(v \div 16, w - 1) \o <<HexDigit(v % 16)>>

\* datetime_to_filetime: the count of 100-nanosecond intervals as '<Q'
datetime_to_filetime(dt) == LE(dt * 10000000, 8)

\* encode_property_value(value, prop_type): the bytes, or the exception of
\* the encoder (a lone surrogate has no UTF-16 form)
encode_property_value(value, prop_type) ==
    IF prop_type = PT_UNICODE
    THEN IF \E i \in 1..Len(value) : value[i] \in 55296..57343
         THEN [error |-> "UnicodeEncodeError", bytes |-> <<>>]
         ELSE [error |-> "none", bytes |-> Utf16le(value) \o <<0, 0>>]
    ELSE IF prop_type = PT_BINARY
    THEN [error |-> "none", bytes |-> value]
    ELSE IF prop_type = PT_LONG
    THEN [error |-> "none", bytes |-> LE(value, 4)]
    ELSE IF prop_type = PT_BOOLEAN
    THEN [error |-> "none", bytes |-> IF value THEN LE(1, 2) ELSE LE(0, 2)]
    ELSE IF prop_type = PT_SYSTIME
    THEN [error |-> "none", bytes |-> datetime_to_filetime(value)]
    ELSE [error |-> "none", bytes |-> <<>>]

\* Property.encode_value
encode_value(prop) == encode_property_value(prop.value, prop.prop_type)

\* create_search_key(addr_type, email)
create_search_key(addr_type, email) ==
    LET e == EncodeAscii(Upper(addr_type \o <<58>> \o email))
    IN  [error |-> e.error, bytes |-> e.bytes \o <<0>>]

\* create_entryid(email, display_name, addr_type)
create_entryid(email, display_name, addr_type) ==
    LET addr_type_bytes == EncodeAscii(addr_type \o <<0>>)
        email_bytes     == EncodeAscii(email \o <<0>>)
        display_bytes   == EncodeAscii(display_name \o <<0>>)
    IN  IF addr_type_bytes.error /= "none" \/ email_bytes.error /= "none"
           \/ display_bytes.error /= "none"
        THEN [error |-> "UnicodeEncodeError", bytes |-> <<>>]
        ELSE [error |-> "none",
              bytes |-> LE(0, 4) \o Fill(0, 16) \o LE(0, 4)
                        \o addr_type_bytes.bytes \o email_bytes.bytes
                        \o display_bytes.bytes]

\* generate_message_id(domain): "<" timestamp "." unique_id "@" domain ">",
\* timestamp and unique_id being what time.time() and uuid4() give
generate_message_id(domain, timestamp, unique_id) ==
    <<60>> \o timestamp \o <<46>> \o unique_id \o <<64>> \o domain \o <<62>>

\* generate_internet_headers: the header lines in order, each as the header
\* name and what the line is made from
generate_internet_headers(subject, sender_email, sender_name, to_recipients, cc_recipients, message_id, date) ==
    << <<"Date", date>>,
       <<"From", <<sender_name, sender_email>> >>,
       <<"To", to_recipients>> >>
    \o (IF cc_recipients /= <<>> THEN << <<"Cc", cc_recipients>> >> ELSE <<>>)
    \o << <<"Subject", subject>>,
          <<"Message-ID", message_id>>,
          <<"MIME-Version", "1.0">>,
          <<"Content-Type", "text/plain; charset=\"utf-8\"">>,
          <<"Content-Transfer-Encoding", "quoted-printable">>,
          <<"X-Mailer", "PyMsgKit">> >>

----------------------------------------------------------------------------
(* MSGWriter: the setters *)

\* tag in self.properties
Has(properties, tag) == tag \in DOMAIN properties

\* The prefixes of set_subject: "RE:", "FW:", "Re:", "Fw:", "RE :", "FW :"
SubjectPrefixes ==
    << <<82, 69, 58>>, <<70, 87, 58>>, <<82, 101, 58>>, <<70, 119, 58>>,
       <<82, 69, 32, 58>>, <<70, 87, 32, 58>> >>

\* The loop of set_subject over the prefixes, from the k-th on
RECURSIVE normalized_subject(_, _)
normalized_subject(subject, k) ==
    IF k > Len(SubjectPrefixes) THEN subject
    ELSE normalized_subject(
             IF StartsWith(subject, SubjectPrefixes[k])
             THEN Strip(Drop(subject, Len(SubjectPrefixes[k])))
             ELSE subject,
             k + 1)

\* MSGWriter.set_subject
set_subject(properties, subject) ==
    set_property(
        set_property(properties, PropertyTag.PR_SUBJECT, PT_UNICODE, subject),
        PropertyTag.PR_CONVERSATION_TOPIC, PT_UNICODE,
        normalized_subject(subject, 1))

\* MSGWriter.set_body
set_body(properties, body, is_html) ==
    set_property(
        IF is_html
        THEN set_property(properties, PropertyTag.PR_HTML, PT_BINARY, body)
        ELSE properties,
        PropertyTag.PR_BODY, PT_UNICODE, body)

\* The set_property calls of a method, in order, from the k-th on: a call
\* whose value could not be computed raises and ends the method
RECURSIVE SetInOrder(_, _, _)
SetInOrder(properties, calls, k) ==
    IF k > Len(calls) THEN [properties |-> properties, error |-> "none"]
    ELSE IF calls[k].error /= "none"
    THEN [properties |-> properties, error |-> calls[k].error]
    ELSE SetInOrder(set_property(properties, calls[k].tag, calls[k].prop_type,
                                 calls[k].value),
                    calls, k + 1)

\* One set_property call with a value at hand
SetCall(tag, prop_type, value) ==
    [tag |-> tag, prop_type |-> prop_type, value |-> value, error |-> "none"]

\* One set_property call whose value is the result r of an encoder
SetEncoded(tag, prop_type, r) ==
    [tag |-> tag, prop_type |-> prop_type, value |-> r.bytes, error |-> r.error]

\* MSGWriter.set_sender
set_sender(properties, email, name, addr_type) ==
    LET display_name == IF name /= <<>> THEN name ELSE email
        search_key   == create_search_key(addr_type, email)
        entryid      == create_entryid(email, display_name, addr_type)
    IN  SetInOrder(properties,
          << SetCall(PropertyTag.PR_SENDER_NAME, PT_UNICODE, display_name),
             SetCall(PropertyTag.PR_SENDER_EMAIL_ADDRESS, PT_UNICODE, email),
             SetCall(PropertyTag.PR_SENDER_ADDRTYPE, PT_UNICODE, addr_type),
             SetEncoded(PropertyTag.PR_SENDER_SEARCH_KEY, PT_BINARY, search_key),
             SetEncoded(PropertyTag.PR_SENDER_ENTRYID, PT_BINARY, entryid),
             SetCall(PropertyTag.PR_SENT_REPRESENTING_NAME, PT_UNICODE, display_name),
             SetCall(PropertyTag.PR_SENT_REPRESENTING_EMAIL_ADDRESS, PT_UNICODE, email),
             SetCall(PropertyTag.PR_SENT_REPRESENTING_ADDRTYPE, PT_UNICODE, addr_type),
             SetEncoded(PropertyTag.PR_SENT_REPRESENTING_SEARCH_KEY, PT_BINARY, search_key),
             SetEncoded(PropertyTag.PR_SENT_REPRESENTING_ENTRYID, PT_BINARY, entryid) >>,
          1)

\* The recipient that add_recipient appends
Recipient(email, name, recipient_type) ==
    [email     |-> email,
     name      |-> IF name /= <<>> THEN name ELSE email,
     type      |-> recipient_type,
     addr_type |-> <<83, 77, 84, 80>>]

\* The attachment that add_attachment appends; content_id and mime_type are
\* None when the caller gives none; 'application/octet-stream' is the default
Attachment(filename, data, content_id, mime_type, is_inline) ==
    [filename   |-> filename,
     data       |-> data,
     content_id |-> content_id,
     mime_type  |-> IF mime_type /= None /\ mime_type /= <<>> THEN mime_type
                    ELSE <<97, 112, 112, 108, 105, 99, 97, 116, 105, 111, 110, 47,
                           111, 99, 116, 101, 116, 45, 115, 116, 114, 101, 97, 109>>,
     is_inline  |-> is_inline,
     method     |-> BY_VALUE]

\* set_conversation_index keeping all 8 bytes of the FILETIME in a new index
conversation_index_full_time(parent_index, now, random) ==
    IF parent_index = None
    THEN <<1>> \o datetime_to_filetime(now) \o random
    ELSE parent_index \o random

\* The value set_conversation_index stores: a new index from the time now
\* and the 16 bytes of os.urandom (random), or the parent index followed by
\* the 5 bytes of os.urandom
conversation_index(parent_index, now, random) ==
    IF parent_index = None
    THEN LET filetime_bytes  == datetime_to_filetime(now)
             compressed_time == SubSeq(filetime_bytes, 1, 5)
             guid            == random
         IN  <<1>> \o compressed_time \o guid
    ELSE LET time_delta == random
         IN  parent_index \o time_delta

\* MSGWriter.set_conversation_index
set_conversation_index(properties, parent_index, now, random) ==
    set_property(properties, PropertyTag.PR_CONVERSATION_INDEX, PT_BINARY,
                 conversation_index(parent_index, now, random))

----------------------------------------------------------------------------
(* MSGWriter.save *)

\* 'pymsgkit.local'
LocalDomain == <<112, 121, 109, 115, 103, 107, 105, 116, 46, 108, 111, 99, 97, 108>>

\* [(r['email'], r['name']) for r in recipients if r['type'] == recipient_type]
RecipientsOfType(recipients, recipient_type) ==
    LET chosen == SelectSeq(recipients, LAMBDA r : r.type = recipient_type)
    IN  [k \in 1..Len(chosen) |-> <<chosen[k].email, chosen[k].name>>]

\* MSGWriter._add_internet_headers; timestamp and unique_id are what
\* generate_message_id draws, now is the datetime.now() of line 250
add_internet_headers(properties, recipients, timestamp, unique_id, now) ==
    LET sender_email == IF Has(properties, PropertyTag.PR_SENDER_EMAIL_ADDRESS)
                        THEN properties[PropertyTag.PR_SENDER_EMAIL_ADDRESS].value
                        ELSE <<>>
        sender_name  == IF Has(properties, PropertyTag.PR_SENDER_NAME)
                        THEN properties[PropertyTag.PR_SENDER_NAME].value
                        ELSE <<>>
        subject      == IF Has(properties, PropertyTag.PR_SUBJECT)
                        THEN properties[PropertyTag.PR_SUBJECT].value
                        ELSE <<>>
        domain       == IF Find(sender_email, 64, 1) /= 0
                        THEN AfterAt(sender_email) ELSE LocalDomain
        message_id   == generate_message_id(domain, timestamp, unique_id)
        with_id      == set_property(properties, PropertyTag.PR_INTERNET_MESSAGE_ID,
                                     PT_UNICODE, message_id)
        to_recips    == RecipientsOfType(recipients, TO)
        cc_recips    == RecipientsOfType(recipients, CC)
        send_time    == IF Has(properties, PropertyTag.PR_CLIENT_SUBMIT_TIME)
                        THEN properties[PropertyTag.PR_CLIENT_SUBMIT_TIME].value
                        ELSE now
    IN  IF sender_email /= <<>> /\ to_recips /= <<>>
        THEN set_property(with_id, PropertyTag.PR_TRANSPORT_MESSAGE_HEADERS, PT_UNICODE,
                 generate_internet_headers(subject, sender_email, sender_name,
                                           to_recips, cc_recips, message_id, send_time))
        ELSE with_id

\* The names that the loop of _update_display_recipients collects for one
\* of its three lists
NamesOfType(recipients, recipient_type) ==
    LET chosen == SelectSeq(recipients, LAMBDA r : r.type = recipient_type)
    IN  [k \in 1..Len(chosen) |-> chosen[k].name]

\* _update_display_recipients with the TO names also put on the CC list
update_display_recipients_mixed(properties, recipients) ==
    LET to_names  == NamesOfType(recipients, TO)
        cc_names  == NamesOfType(recipients, TO) \o NamesOfType(recipients, CC)
        bcc_names == NamesOfType(recipients, BCC)
        p1 == IF to_names /= <<>>
              THEN set_property(properties, PropertyTag.PR_DISPLAY_TO, PT_UNICODE,
                                Join(to_names, <<59, 32>>))
              ELSE properties
        p2 == IF cc_names /= <<>>
              THEN set_property(p1, PropertyTag.PR_DISPLAY_CC, PT_UNICODE,
                                Join(cc_names, <<59, 32>>))
              ELSE p1
    IN  IF bcc_names /= <<>>
        THEN set_property(p2, PropertyTag.PR_DISPLAY_BCC, PT_UNICODE,
                          Join(bcc_names, <<59, 32>>))
        ELSE p2

\* MSGWriter._update_display_recipients
update_display_recipients(properties, recipients) ==
    LET to_names  == NamesOfType(recipients, TO)
        cc_names  == NamesOfType(recipients, CC)
        bcc_names == NamesOfType(recipients, BCC)
        p1 == IF to_names /= <<>>
              THEN set_property(properties, PropertyTag.PR_DISPLAY_TO, PT_UNICODE,
                                Join(to_names, <<59, 32>>))
              ELSE properties
        p2 == IF cc_names /= <<>>
              THEN set_property(p1, PropertyTag.PR_DISPLAY_CC, PT_UNICODE,
                                Join(cc_names, <<59, 32>>))
              ELSE p1
    IN  IF bcc_names /= <<>>
        THEN set_property(p2, PropertyTag.PR_DISPLAY_BCC, PT_UNICODE,
                          Join(bcc_names, <<59, 32>>))
        ELSE p2

\* flags of save without MSGFLAG_READ
message_flags_unread(attachments) ==
    IF attachments /= <<>> THEN MSGFLAG_HASATTACH ELSE 0

\* flags of save: 0, then |= 0x10 when there are attachments, then |= 0x01
message_flags(attachments) ==
    (IF attachments /= <<>> THEN MSGFLAG_HASATTACH ELSE 0) + MSGFLAG_READ

\* save, lines 194-206: the properties when _write_properties starts
save_updates(properties, recipients, attachments, timestamp, unique_id, now) ==
    LET flags == message_flags(attachments)
        p1 == IF attachments /= <<>>
              THEN set_property(properties, PropertyTag.PR_HASATTACH, PT_BOOLEAN, TRUE)
              ELSE properties
        p2 == set_property(p1, PropertyTag.PR_MESSAGE_FLAGS, PT_LONG, flags)
        p3 == add_internet_headers(p2, recipients, timestamp, unique_id, now)
    IN  update_display_recipients(p3, recipients)

\* "__properties_version1.0"
PropertiesStreamName ==
    <<95, 95, 112, 114, 111, 112, 101, 114, 116, 105, 101, 115, 95, 118, 101,
      114, 115, 105, 111, 110, 49, 46, 48>>

\* The recipient storage name without the index: "__recip_version1.0_#00000000"
RecipientStorageNameUnindexed(idx) ==
    <<95, 95, 114, 101, 99, 105, 112, 95, 118, 101, 114, 115, 105, 111, 110,
      49, 46, 48, 95, 35>> \o Hex(0, 8)

\* f"__recip_version1.0_#{idx:08X}"
RecipientStorageName(idx) ==
    <<95, 95, 114, 101, 99, 105, 112, 95, 118, 101, 114, 115, 105, 111, 110,
      49, 46, 48, 95, 35>> \o Hex(idx, 8)

\* f"__attach_version1.0_#{idx:08X}"
AttachmentStorageName(idx) ==
    <<95, 95, 97, 116, 116, 97, 99, 104, 95, 118, 101, 114, 115, 105, 111, 110,
      49, 46, 48, 95, 35>> \o Hex(idx, 8)

\* "__nameid_version1.0"
NameidStorageName ==
    <<95, 95, 110, 97, 109, 101, 105, 100, 95, 118, 101, 114, 115, 105, 111,
      110, 49, 46, 48>>

\* "__substg1.0_00020102" and "__substg1.0_00030102"
NameidStreamName(digit) ==
    <<95, 95, 115, 117, 98, 115, 116, 103, 49, 46, 48, 95, 48, 48, 48>>
    \o <<digit>> \o <<48, 49, 48, 50>>

\* self.cfb.add_storage(name, parent_did) on the builder b of the writer
cfb_add_storage(b, name, parent_did) ==
    LET r == AddStorage(b.directory_entries, name, parent_did)
    IN  [cfb     |-> [b EXCEPT !.directory_entries = r.entries],
         outcome |-> r.outcome,
         did     |-> Len(b.directory_entries)]

\* self.cfb.add_stream(name, data, parent_did), len(data) = size
cfb_add_stream(b, name, size, parent_did) ==
    LET r == AddStream(b.directory_entries, name, size, parent_did)
    IN  [cfb     |-> [b EXCEPT !.directory_entries = r.entries,
                               !.streams = Append(b.streams,
                                                  <<Len(b.directory_entries), size>>)],
         outcome |-> r.outcome,
         did     |-> Len(b.directory_entries)]

\* Property.get_stream_name: f"__substg1.0_{tag:04X}{prop_type:04X}"
get_stream_name(tag, prop_type) ==
    <<95, 95, 115, 117, 98, 115, 116, 103, 49, 46, 48, 95>>
    \o Hex(tag, 4) \o Hex(prop_type, 4)

\* Property.is_fixed_length: PT_SHORT, PT_LONG, PT_FLOAT, PT_DOUBLE,
\* PT_BOOLEAN, PT_LONGLONG, PT_SYSTIME, PT_ERROR
is_fixed_length(prop_type) ==
    prop_type \in {2, PT_LONG, 4, 5, PT_BOOLEAN, 20, PT_SYSTIME, 10}

\* Property.get_fixed_entry: the property tag and type as one 32-bit value,
\* the flags 0, then the 8-byte slot: the encoded value zero-filled (cut) to
\* 8 bytes for a fixed-length type, the encoded length otherwise.  No code
\* of the package calls it.
get_fixed_entry(prop) ==
    LET prop_tag_combined == prop.prop_type * 65536 + prop.tag
        value_bytes == encode_value(prop).bytes
        value_field == IF is_fixed_length(prop.prop_type)
                       THEN Take(value_bytes \o Fill(0, 8 - Len(value_bytes)), 8)
                       ELSE LE(Len(value_bytes), 8)
    IN  LE(prop_tag_combined, 4) \o LE(0, 4) \o value_field

\* The first 24 bytes of properties_data in _write_properties: 8 reserved
\* bytes, then struct.pack('<IIII', recipient_count, attachment_count,
\* recipient_count, attachment_count)
properties_header(recipients, attachments) ==
    Fill(0, 8) \o LE(Len(recipients), 4) \o LE(Len(attachments), 4)
    \o LE(Len(recipients), 4) \o LE(Len(attachments), 4)

\* The tag that sorted(props.items()) puts first
FirstTag(props) == CHOOSE t \in DOMAIN props : \A u \in DOMAIN props : t <= u

\* The loop "for tag, prop in sorted(props.items())" of _write_properties,
\* _write_recipient and _write_attachment: its first pass calls encode_value
\* and then prop.get_property_entry, a method that class Property does not
\* define, so a loop over any property ends with an exception
property_entries(props) ==
    IF DOMAIN props = {} THEN "none"
    ELSE IF encode_value(props[FirstTag(props)]).error /= "none"
    THEN encode_value(props[FirstTag(props)]).error
    ELSE "AttributeError"

\* MSGWriter._write_properties on the writer state w (cfb, properties,
\* recipients, attachments, error, file)
write_properties(w) ==
    LET error == property_entries(w.properties)
    IN  IF error /= "none" THEN [w EXCEPT !.error = error]
        ELSE [w EXCEPT !.cfb = cfb_add_stream(w.cfb, PropertiesStreamName, 24, 0).cfb]

\* The recip_props of _write_recipient
recip_props(recipient) ==
    LET search_key == create_search_key(recipient.addr_type, recipient.email)
        entryid    == create_entryid(recipient.email, recipient.name, recipient.addr_type)
    IN  SetInOrder(<<>>,
          << SetCall(PropertyTag.PR_RECIPIENT_TYPE, PT_LONG, recipient.type),
             SetCall(PropertyTag.PR_DISPLAY_NAME, PT_UNICODE, recipient.name),
             SetCall(PropertyTag.PR_EMAIL_ADDRESS, PT_UNICODE, recipient.email),
             SetCall(PropertyTag.PR_ADDRTYPE, PT_UNICODE, recipient.addr_type),
             SetCall(PropertyTag.PR_SMTP_ADDRESS, PT_UNICODE, recipient.email),
             SetEncoded(PropertyTag.PR_SEARCH_KEY, PT_BINARY, search_key),
             SetEncoded(PropertyTag.PR_ENTRYID, PT_BINARY, entryid) >>,
          1)

\* MSGWriter._write_recipient(idx, recipient)
write_recipient(w, idx, recipient) ==
    LET storage == cfb_add_storage(w.cfb, RecipientStorageName(idx), 0)
        props   == recip_props(recipient)
    IN  [w EXCEPT !.cfb = storage.cfb,
                  !.error = IF props.error /= "none" THEN props.error
                            ELSE property_entries(props.properties)]

\* The attach_props of _write_attachment
attach_props(idx, attachment) ==
    LET ext == splitext(attachment.filename)
    IN  SetInOrder(<<>>,
          << SetCall(PropertyTag.PR_ATTACH_METHOD, PT_LONG, attachment.method),
             SetCall(PropertyTag.PR_ATTACH_SIZE, PT_LONG, Len(attachment.data)),
             SetCall(PropertyTag.PR_ATTACH_LONG_FILENAME, PT_UNICODE, attachment.filename),
             SetCall(PropertyTag.PR_ATTACH_FILENAME, PT_UNICODE, attachment.filename) >>
          \o (IF ext /= <<>>
              THEN << SetCall(PropertyTag.PR_ATTACH_EXTENSION, PT_UNICODE, ext) >>
              ELSE <<>>)
          \o << SetCall(PropertyTag.PR_ATTACH_MIME_TAG, PT_UNICODE, attachment.mime_type) >>
          \o (IF attachment.content_id /= None /\ attachment.content_id /= <<>>
              THEN << SetCall(PropertyTag.PR_ATTACH_CONTENT_ID, PT_UNICODE,
                              attachment.content_id) >>
              ELSE <<>>)
          \o (IF attachment.is_inline
              THEN << SetCall(PropertyTag.PR_RENDERING_POSITION, PT_LONG, -1),
                      SetCall(PropertyTag.PR_ATTACHMENT_HIDDEN, PT_BOOLEAN, TRUE) >>
              ELSE <<>>)
          \o << SetCall(PropertyTag.PR_ATTACH_DATA_BIN, PT_BINARY, attachment.data),
                SetCall(PropertyTag.PR_ATTACH_NUM, PT_LONG, idx) >>,
          1)

\* MSGWriter._write_attachment(idx, attachment)
write_attachment(w, idx, attachment) ==
    LET storage == cfb_add_storage(w.cfb, AttachmentStorageName(idx), 0)
        props   == attach_props(idx, attachment)
    IN  [w EXCEPT !.cfb = storage.cfb,
                  !.error = property_entries(props.properties)]

\* The loop of save over the recipients, from the k-th on; an exception ends it
RECURSIVE write_recipients(_, _)
write_recipients(w, k) ==
    IF w.error /= "none" \/ k > Len(w.recipients) THEN w
    ELSE write_recipients(write_recipient(w, k - 1, w.recipients[k]), k + 1)

\* The loop of save over the attachments, from the k-th on
RECURSIVE write_attachments(_, _)
write_attachments(w, k) ==
    IF w.error /= "none" \/ k > Len(w.attachments) THEN w
    ELSE write_attachments(write_attachment(w, k - 1, w.attachments[k]), k + 1)

\* MSGWriter._write_named_properties
write_named_properties(w) ==
    IF w.error /= "none" THEN w
    ELSE LET storage == cfb_add_storage(w.cfb, NameidStorageName, 0)
             guid    == cfb_add_stream(storage.cfb, NameidStreamName(50), 16, storage.did)
             entry   == cfb_add_stream(guid.cfb, NameidStreamName(51), 8, storage.did)
         IN  [w EXCEPT !.cfb = entry.cfb]

\* self.cfb.write(filepath), the last step of save
cfb_write(w) ==
    IF w.error /= "none" THEN w
    ELSE CHOOSE written \in
             {[w EXCEPT !.cfb = [directory_entries |-> r.directory_entries,
                                 streams           |-> w.cfb.streams,
                                 fat               |-> r.fat,
                                 mini_fat          |-> r.mini_fat,
                                 mini_stream_data  |-> r.mini_stream_data],
                        !.file = r.written] : r \in {write_to_stream(w.cfb)}} : TRUE

\* MSGWriter.save on the writer state w: the state when save returns or
\* raises, error being the exception
save(w, timestamp, unique_id, now) ==
    LET updated == [w EXCEPT !.error = "none",
                             !.properties = save_updates(w.properties, w.recipients,
                                                w.attachments, timestamp, unique_id, now)]
    IN  cfb_write(
          write_named_properties(
            write_attachments(
              write_recipients(write_properties(updated), 1), 1)))

----------------------------------------------------------------------------
(* The inputs of the model *)

NameA == <<97>>

\* 33 code points, two of them above U+FFFF: longer than a directory name
LongName == [i \in 1..33 |-> IF i <= 2 THEN 128512 ELSE 98]

Names == {NameA, LongName}

\* len(data) of the streams of Spec: one stream of two mini-sectors
DirSizes == {65}

\* len(data) of the streams of SpecAlloc: empty, around the mini-sector size,
\* around the cutoff, and 127 sectors (which with the directory sector brings
\* the FAT to 128 entries before the FAT's own sectors are added)
Sizes == {0, 1, 64, 65, 4095, 4096, 4097, 65024}

\* Sizes around the 109 FAT sectors the header's DIFAT array can list:
\* 13951 and 13952 data sectors
LargeSizes == {100, 4096, 7142912, 7143424}

\* The instants datetime.now() may return
Clock == {1, 2}

\* parent_did: every DID in use, the DID the new entry gets, and one beyond
ParentChoices(entries) == 0..(Len(entries) + 1)

\* The bytes os.urandom(n) may return
RandomBytes(n) == {Fill(0, n), Fill(255, n)}

\* What generate_message_id draws: str(int(time.time() * 1000000)) and
\* uuid.uuid4().hex[:16]
Timestamps == {<<49>>}

UniqueIds == {Fill(97, 16)}

\* set_property calls on the tags that save maintains
PropertyInputs ==
    << [tag |-> PropertyTag.PR_HASATTACH, prop_type |-> PT_BOOLEAN, value |-> TRUE],
       [tag |-> PropertyTag.PR_HASATTACH, prop_type |-> PT_BOOLEAN, value |-> FALSE],
       [tag |-> PropertyTag.PR_MESSAGE_FLAGS, prop_type |-> PT_LONG, value |-> 0],
       [tag |-> PropertyTag.PR_MESSAGE_FLAGS, prop_type |-> PT_LONG, value |-> 2],
       [tag |-> PropertyTag.PR_MESSAGE_FLAGS, prop_type |-> PT_LONG, value |-> 16] >>

\* add_attachment calls: "t.txt" with b"abc" and mime type "text/plain";
\* "README" with no data, content id "cid1", inline; "t.txt" with an empty
\* content id
AttachmentInputs ==
    {Attachment(<<116, 46, 116, 120, 116>>, <<97, 98, 99>>, None,
                <<116, 101, 120, 116, 47, 112, 108, 97, 105, 110>>, FALSE),
     Attachment(<<82, 69, 65, 68, 77, 69>>, <<>>, <<99, 105, 100, 49>>, None, TRUE),
     Attachment(<<116, 46, 116, 120, 116>>, <<97, 98, 99>>, <<>>, None, FALSE)}

\* add_recipient calls: a@b as TO without a name, c@d "N" as TO, a@b "M" as
\* CC, c@d "O" as BCC, an empty email, and a recipient type of 7
RecipientInputs ==
    {Recipient(<<97, 64, 98>>, <<>>, TO),
     Recipient(<<99, 64, 100>>, <<78>>, TO),
     Recipient(<<97, 64, 98>>, <<77>>, CC),
     Recipient(<<99, 64, 100>>, <<79>>, BCC),
     Recipient(<<>>, <<>>, TO),
     Recipient(<<97, 64, 98>>, <<77>>, 7)}

\* set_sender calls: email "" or "a@b", name "" or U+00E9 (not ASCII)
SenderEmails == {<<>>, <<97, 64, 98>>}

SenderNames == {<<>>, <<233>>}

\* set_subject calls: "x", "RE: x", "re: x", "RE:x", "RE : x", "RE: x ",
\* "RE: FW: x", "FW: RE: x", "Re: RE: x", "FWD: x"
Subjects ==
    {<<120>>,
     <<82, 69, 58, 32, 120>>,
     <<114, 101, 58, 32, 120>>,
     <<82, 69, 58, 120>>,
     <<82, 69, 32, 58, 32, 120>>,
     <<82, 69, 58, 32, 120, 32>>,
     <<82, 69, 58, 32, 70, 87, 58, 32, 120>>,
     <<70, 87, 58, 32, 82, 69, 58, 32, 120>>,
     <<82, 101, 58, 32, 82, 69, 58, 32, 120>>,
     <<70, 87, 68, 58, 32, 120>>}

\* set_body calls: "x"
Bodies == {<<120>>}

\* The parent_index arguments of set_conversation_index: none, b"", three
\* bytes, and the index the writer holds
ParentIndexes(properties) ==
    {None, <<>>, <<1, 2, 3>>}
    \cup (IF Has(properties, PropertyTag.PR_CONVERSATION_INDEX)
          THEN {properties[PropertyTag.PR_CONVERSATION_INDEX].value}
          ELSE {})

----------------------------------------------------------------------------
(* The state machine *)

Init ==
    /\ directory_entries = CFBWriterInit.directory_entries
    /\ streams = CFBWriterInit.streams
    /\ fat = CFBWriterInit.fat
    /\ mini_fat = CFBWriterInit.mini_fat
    /\ mini_stream_data = CFBWriterInit.mini_stream_data
    /\ file = NoFile
    /\ fin = [stream_sectors |-> <<>>,
              dir_data |-> [entries |-> <<>>, pad |-> 0, len |-> 0],
              dir_sectors |-> <<>>,
              mini_fat_data |-> [entries |-> <<>>, pad |-> 0, len |-> 0],
              mini_fat_start_sector |-> ENDOFCHAIN,
              num_mini_fat_sectors |-> 0,
              num_fat_sectors |-> 0,
              fat_sector_ids |-> <<>>]
    /\ nwrites = 0
    /\ ret = [op |-> "init", name |-> <<>>, parent_did |-> 0, size |-> 0,
              outcome |-> "ok", did |-> 0]
    /\ msg = [stage |-> "none", error |-> "none", cfb |-> CFBWriterInit,
              properties |-> <<>>, recipients |-> <<>>, attachments |-> <<>>,
              file |-> NoFile, last |-> NoCall]

\* MSGWriter() and the builder calls are two uses of the package that share
\* no state; an exception out of MSGWriter() is not caught and ends the run
Running == msg.stage /= "raised"

\* cfb.add_storage(name, parent_did)
add_storage ==
    /\ Running
    /\ Len(directory_entries) - 1 < MaxEntries
    /\ \E name \in Names, parent_did \in ParentChoices(directory_entries) :
         LET r == AddStorage(directory_entries, name, parent_did)
         IN  /\ directory_entries' = r.entries
             /\ ret' = [op |-> "add_storage", name |-> name,
                        parent_did |-> parent_did, size |-> 0,
                        outcome |-> r.outcome, did |-> Len(directory_entries)]
    /\ UNCHANGED <<streams, fat, mini_fat, mini_stream_data, file, fin, nwrites, msg>>

\* cfb.add_stream(name, data, parent_did) with len(data) in sizes
AddStreamCall(names, sizes, parents) ==
    \E name \in names, size \in sizes, parent_did \in parents :
        LET r == AddStream(directory_entries, name, size, parent_did)
        IN  /\ directory_entries' = r.entries
            /\ streams' = Append(streams, <<Len(directory_entries), size>>)
            /\ ret' = [op |-> "add_stream", name |-> name,
                       parent_did |-> parent_did, size |-> size,
                       outcome |-> r.outcome, did |-> Len(directory_entries)]

add_stream ==
    /\ Running
    /\ Len(directory_entries) - 1 < MaxEntries
    /\ AddStreamCall(Names, DirSizes, ParentChoices(directory_entries))
    /\ UNCHANGED <<fat, mini_fat, mini_stream_data, file, fin, nwrites, msg>>

\* cfb.add_storage(name) under the root
add_root_storage ==
    /\ Running
    /\ Len(directory_entries) - 1 < MaxEntries
    /\ LET r == AddStorage(directory_entries, NameA, 0)
       IN  /\ directory_entries' = r.entries
           /\ ret' = [op |-> "add_storage", name |-> NameA,
                      parent_did |-> 0, size |-> 0,
                      outcome |-> r.outcome, did |-> Len(directory_entries)]
    /\ UNCHANGED <<streams, fat, mini_fat, mini_stream_data, file, fin, nwrites, msg>>

\* cfb.add_stream(name, data) under the root, with len(data) in Sizes
add_root_stream ==
    /\ Running
    /\ Len(directory_entries) - 1 < MaxEntries
    /\ AddStreamCall({NameA}, Sizes, {0})
    /\ UNCHANGED <<fat, mini_fat, mini_stream_data, file, fin, nwrites, msg>>

\* cfb.add_stream(name, data) under the root, with data of several megabytes
add_large_stream ==
    /\ Running
    /\ Len(directory_entries) - 1 < MaxLargeEntries
    /\ AddStreamCall(Names, LargeSizes, {0})
    /\ UNCHANGED <<fat, mini_fat, mini_stream_data, file, fin, nwrites, msg>>

\* cfb.write(file_path): open(file_path, 'wb') and _write_to_stream
write ==
    /\ Running
    /\ nwrites < MaxWrites
    /\ \E w \in {write_to_stream([directory_entries |-> directory_entries,
                                   streams |-> streams, fat |-> fat,
                                   mini_fat |-> mini_fat,
                                   mini_stream_data |-> mini_stream_data])} :
           /\ directory_entries' = w.directory_entries
           /\ fat' = w.fat
           /\ mini_fat' = w.mini_fat
           /\ mini_stream_data' = w.mini_stream_data
           /\ fin' = w.locals
           /\ file' = w.written
    /\ nwrites' = nwrites + 1
    /\ ret' = [op |-> "write", name |-> <<>>, parent_did |-> 0, size |-> 0,
               outcome |-> "ok", did |-> 0]
    /\ UNCHANGED <<streams, msg>>

\* The numbers of sectors that reached the file when a write of the sink
\* raised, out of the n that "Write sectors in order" writes: none, one, or
\* all but the last
SinkFailurePoints(n) == {0, 1, n - 1} \cap (0..(n - 1))

\* cfb.write(file_path) where a write of the sink raises OSError after the
\* header and k sectors: open(file_path, 'wb') has created the file,
\* _write_to_stream has allocated everything before its first write, the
\* with statement closes the file and the exception leaves write; nothing
\* removes the file
write_sink_error ==
    /\ Running
    /\ nwrites < MaxWrites
    /\ \E w \in {write_to_stream([directory_entries |-> directory_entries,
                                   streams |-> streams, fat |-> fat,
                                   mini_fat |-> mini_fat,
                                   mini_stream_data |-> mini_stream_data])} :
         \E k \in SinkFailurePoints(Len(w.written.ids)) :
           /\ directory_entries' = w.directory_entries
           /\ fat' = w.fat
           /\ mini_fat' = w.mini_fat
           /\ mini_stream_data' = w.mini_stream_data
           /\ fin' = w.locals
           /\ file' = [w.written EXCEPT !.ids = SubSeq(@, 1, k),
                                        !.sectors = SubSeq(@, 1, k)]
    /\ nwrites' = nwrites + 1
    /\ ret' = [op |-> "write", name |-> <<>>, parent_did |-> 0, size |-> 0,
               outcome |-> "OSError", did |-> 0]
    /\ UNCHANGED <<streams, msg>>

\* MSGWriter()
MSGWriter_init ==
    /\ msg.stage = "none"
    /\ ret.op = "init"
    /\ \E now \in Clock : msg' = MSGWriterInit(now)
    /\ UNCHANGED <<directory_entries, streams, fat, mini_fat, mini_stream_data,
                   file, fin, nwrites, ret>>

Next == add_storage \/ add_stream \/ write \/ MSGWriter_init

Spec == Init /\ [][Next]_vars

\* The file's header as _write_header wrote it
FileHeader ==
    write_header(file.header.dir_start_sector, file.header.fat_sectors,
                 file.header.mini_fat_start, file.header.num_mini_fat_sectors)

\* fat_data of the last write: self.fat changes only in _write_to_stream
LastFatData == FatData(fat, fin.num_fat_sectors)

NextAlloc == add_root_storage \/ add_root_stream \/ write

SpecAlloc == Init /\ [][NextAlloc]_vars

NextLarge == add_large_stream \/ write

SpecLarge == Init /\ [][NextLarge]_vars

NextSink == add_root_stream \/ write \/ write_sink_error

SpecSink == Init /\ [][NextSink]_vars

----------------------------------------------------------------------------
(* The methods of MSGWriter.  A method acts on the writer object whatever  *)
(* way __init__ ended: the object that __init__ was filling when it raised *)
(* has its builder, its lists and the defaults set before the raise, and   *)
(* a caller that catches the exception holds it                            *)
(* (w = MSGWriter.__new__(MSGWriter), then w.__init__() in a try).         *)

HasWriter == msg.stage /= "none"

\* A step of the writer: the builder of the first part is not involved
WriterStep(m) ==
    /\ msg' = m
    /\ UNCHANGED <<directory_entries, streams, fat, mini_fat, mini_stream_data,
                   file, fin, nwrites, ret>>

\* msg.set_property(tag, prop_type, value)
MSGWriter_set_property ==
    /\ HasWriter
    /\ \E k \in 1..Len(PropertyInputs) :
         WriterStep([msg EXCEPT
            !.properties = set_property(msg.properties, PropertyInputs[k].tag,
                               PropertyInputs[k].prop_type, PropertyInputs[k].value),
            !.last = [op |-> "set_property", outcome |-> "none",
                      arg |-> PropertyInputs[k]]])

\* msg.set_subject(subject)
MSGWriter_set_subject ==
    /\ HasWriter
    /\ \E subject \in Subjects :
         WriterStep([msg EXCEPT
            !.properties = set_subject(msg.properties, subject),
            !.last = [op |-> "set_subject", outcome |-> "none", arg |-> subject]])

\* msg.set_body(body, is_html)
MSGWriter_set_body ==
    /\ HasWriter
    /\ \E body \in Bodies, is_html \in BOOLEAN :
         WriterStep([msg EXCEPT
            !.properties = set_body(msg.properties, body, is_html),
            !.last = [op |-> "set_body", outcome |-> "none",
                      arg |-> <<body, is_html>>]])

\* msg.set_sender(email, name)
MSGWriter_set_sender ==
    /\ HasWriter
    /\ \E email \in SenderEmails, name \in SenderNames :
         \E r \in {set_sender(msg.properties, email, name, <<83, 77, 84, 80>>)} :
            WriterStep([msg EXCEPT
               !.properties = r.properties,
               !.last = [op |-> "set_sender", outcome |-> r.error,
                         arg |-> [email |-> email, name |-> name]]])

\* msg.add_recipient(email, name, recipient_type)
MSGWriter_add_recipient ==
    /\ HasWriter
    /\ Len(msg.recipients) < MaxRecipients
    /\ \E recipient \in RecipientInputs :
         WriterStep([msg EXCEPT
            !.recipients = Append(msg.recipients, recipient),
            !.last = [op |-> "add_recipient", outcome |-> "none",
                      arg |-> [email |-> recipient.email, type |-> recipient.type]]])

\* msg.add_attachment(filename, data, content_id, mime_type, is_inline)
MSGWriter_add_attachment ==
    /\ HasWriter
    /\ Len(msg.attachments) < MaxAttachments
    /\ \E attachment \in AttachmentInputs :
         WriterStep([msg EXCEPT
            !.attachments = Append(msg.attachments, attachment),
            !.last = [op |-> "add_attachment", outcome |-> "none",
                      arg |-> attachment]])

\* msg.add_recipient(email) and msg.add_recipient(email, name): "a@b" without
\* a name or "c@d" named "N", as TO
MSGWriter_add_recipient_to ==
    /\ HasWriter
    /\ Len(msg.recipients) < MaxRecipients
    /\ \E recipient \in {Recipient(<<97, 64, 98>>, <<>>, TO),
                          Recipient(<<99, 64, 100>>, <<78>>, TO)} :
         WriterStep([msg EXCEPT
            !.recipients = Append(msg.recipients, recipient),
            !.last = [op |-> "add_recipient", outcome |-> "none",
                      arg |-> [email |-> recipient.email, type |-> recipient.type]]])

\* msg.add_attachment(filename, data, ...): "t.txt" with b"abc" and a mime
\* type, or "README" without data, inline with the content id "cid1"
MSGWriter_add_attachment_file ==
    /\ HasWriter
    /\ Len(msg.attachments) < MaxAttachments
    /\ \E attachment \in
           {Attachment(<<116, 46, 116, 120, 116>>, <<97, 98, 99>>, None,
                       <<116, 101, 120, 116, 47, 112, 108, 97, 105, 110>>, FALSE),
            Attachment(<<82, 69, 65, 68, 77, 69>>, <<>>, <<99, 105, 100, 49>>, None, TRUE)} :
         WriterStep([msg EXCEPT
            !.attachments = Append(msg.attachments, attachment),
            !.last = [op |-> "add_attachment", outcome |-> "none",
                      arg |-> attachment]])

\* msg.set_conversation_index(parent_index)
MSGWriter_set_conversation_index ==
    /\ HasWriter
    /\ \E parent_index \in ParentIndexes(msg.properties), now \in Clock :
         /\ parent_index /= None => Len(parent_index) + 5 <= MaxIndexLen
         /\ \E random \in RandomBytes(IF parent_index = None THEN 16 ELSE 5) :
              WriterStep([msg EXCEPT
                 !.properties = set_conversation_index(msg.properties, parent_index,
                                                       now, random),
                 !.last = [op |-> "set_conversation_index", outcome |-> "none",
                           arg |-> parent_index]])

\* msg.save(filepath)
MSGWriter_save ==
    /\ HasWriter
    /\ \E timestamp \in Timestamps, unique_id \in UniqueIds, now \in Clock :
         \E r \in {save(msg, timestamp, unique_id, now)} :
            WriterStep([msg EXCEPT
               !.cfb = r.cfb,
               !.properties = r.properties,
               !.file = r.file,
               !.last = [op |-> "save", outcome |-> r.error,
                         arg |-> [recipients |-> msg.recipients,
                                  attachments |-> msg.attachments]]])

\* Attachments, set_property on PR_HASATTACH and PR_MESSAGE_FLAGS, and save
NextFlags ==
    MSGWriter_init \/ MSGWriter_set_property \/ MSGWriter_add_attachment
    \/ MSGWriter_save

SpecFlags == Init /\ [][NextFlags]_vars

\* The sender, the recipients, and save
NextRecipients ==
    MSGWriter_init \/ MSGWriter_set_sender \/ MSGWriter_add_recipient
    \/ MSGWriter_save

SpecRecipients == Init /\ [][NextRecipients]_vars

\* The recipients, the attachments, and save
NextSave ==
    MSGWriter_init \/ MSGWriter_add_recipient \/ MSGWriter_add_attachment
    \/ MSGWriter_save

SpecSave == Init /\ [][NextSave]_vars

\* The body, plain or HTML, the recipients, the attachments, and save
NextNames ==
    MSGWriter_init \/ MSGWriter_set_body \/ MSGWriter_add_recipient_to
    \/ MSGWriter_add_attachment_file \/ MSGWriter_save

SpecNames == Init /\ [][NextNames]_vars

\* The subject, the body and the conversation index
NextSubject ==
    MSGWriter_init \/ MSGWriter_set_subject \/ MSGWriter_set_body
    \/ MSGWriter_set_conversation_index

SpecSubject == Init /\ [][NextSubject]_vars

----------------------------------------------------------------------------
(* Reading an image back: what a reader finds in the file at the offsets   *)
(* the format prescribes                                                   *)

\* The image of the first write() on the builder
FirstImage == file.exists /\ nwrites = 1

\* The number of bytes of a header
HeaderLength(header) == SumLen([k \in 1..Len(header) |-> header[k].value])

HeaderLen == HeaderLength(FileHeader)

\* The offsets at which pieces of lens[lo], ..., lens[hi] bytes start when
\* they are written one after the other from offset base on
RECURSIVE Offsets(_, _, _, _)
Offsets(lens, lo, hi, base) ==
    IF lo > hi THEN <<>>
    ELSE IF lo = hi THEN <<base>>
    ELSE Offsets(lens, lo, (lo + hi) \div 2, base)
         \o Offsets(lens, ((lo + hi) \div 2) + 1, hi,
                    base + SumRange(lens, lo, (lo + hi) \div 2))

\* The number of bytes of each payload written after the header
PayloadLens == [k \in 1..Len(file.sectors) |-> PayloadLen(file.sectors[k])]

\* The sectors of the image: sector s, the SECTOR_SIZE bytes at offset
\* SECTOR_SIZE * (s + 1), is element s + 1.  The k-th payload written is
\* sector k - 1 when the header and the payloads before it are one sector
\* each; the bytes after the last such payload are left out.
ImageSectors ==
    IF HeaderLen = SECTOR_SIZE
    THEN SelectSeq(file.sectors, LAMBDA p : PayloadLen(p) = SECTOR_SIZE)
    ELSE <<>>

\* Nothing that the image holds
Garbage == [buf |-> <<"garbage", 0>>, from |-> 0, to |-> 0, pad |-> 0]

\* The sector IDs in the DIFAT slots of the header, FREESECT slots left out
DifatOf(header, T) ==
    LET slots == SelectSeq(header, LAMBDA h : h.field = "difat" /\ h.value /= LE(FREESECT, 4))
    IN  [i \in 1..Len(slots) |->
            CHOOSE id \in 0..(T - 1) : LE(id, 4) = slots[i].value]

HeaderDifat == DifatOf(FileHeader, Len(fat))

\* Sector s of sectors
ReadSector(sectors, s) == IF s \in 0..(Len(sectors) - 1) THEN sectors[s + 1] ELSE Garbage

\* The FAT as the image holds it: the 32-bit entries of the sectors the
\* header's DIFAT lists, in that order
FatImage(sectors, ids, fat_data) ==
    [k \in 1..(FatEntriesPerSector * Len(ids)) |->
        LET p == ReadSector(sectors, ids[((k - 1) \div FatEntriesPerSector) + 1])
            b == 4 * ((k - 1) % FatEntriesPerSector)
        IN  IF p.buf = <<"fat", 0>> /\ p.from + b < p.to
            THEN fat_data[((p.from + b) \div 4) + 1]
            ELSE FREESECT]

\* What follows s in table (the entry of sector i is table[i + 1]); a value
\* that names no sector of the table is followed by itself
Follow(table, s) == IF s \in 0..(Len(table) - 1) THEN table[s + 1] ELSE s

\* s and the n - 1 values that follow it in table, computed by halves
RECURSIVE Steps(_, _, _)
Steps(table, s, n) ==
    IF n = 0 THEN <<>>
    ELSE IF n = 1 THEN <<s>>
    ELSE LET left == Steps(table, s, n \div 2)
         IN  left \o Steps(table, Follow(table, left[Len(left)]), n - (n \div 2))

\* The chain that starts at sector s: the sectors visited from s on by
\* following table until an entry names no sector of the table
Chain(table, s) ==
    SelectSeq(Steps(table, s, Len(table)), LAMBDA v : v \in 0..(Len(table) - 1))

\* The directory entries the image holds
ImageEntries == fin.dir_data.entries

\* The sector of chain that holds offset o of the stream stored in chain
ChainSector(sectors, chain, o) ==
    IF (o \div SECTOR_SIZE) + 1 <= Len(chain)
    THEN ReadSector(sectors, chain[(o \div SECTOR_SIZE) + 1])
    ELSE Garbage

\* The MiniFAT as the image holds it: the entries of the sectors of the chain
\* that the header's first-MiniFAT-sector field starts
MiniFatImage(sectors, fatImage, mini_fat_data) ==
    LET chain == Chain(fatImage, file.header.mini_fat_start)
    IN  [k \in 1..(FatEntriesPerSector * Len(chain)) |->
            LET p == ChainSector(sectors, chain, 4 * (k - 1))
                b == (4 * (k - 1)) % SECTOR_SIZE
            IN  IF p.buf = <<"minifat", 0>> /\ p.from + b < p.to
                   /\ (p.from + b) \div 4 < Len(mini_fat_data.entries)
                THEN mini_fat_data.entries[((p.from + b) \div 4) + 1]
                ELSE FREESECT]

\* The mini-sectors of the image: mini-sector m, the MINI_SECTOR_SIZE bytes
\* at offset MINI_SECTOR_SIZE * m of the mini stream, is element m + 1; the
\* chain of the mini stream starts at the root entry's starting_sector
ImageMiniSectors(sectors, fatImage, entries, mini_data) ==
    LET chain == Chain(fatImage, entries[1].starting_sector)
    IN  [k \in 1..(entries[1].stream_size \div MINI_SECTOR_SIZE) |->
            LET o == MINI_SECTOR_SIZE * (k - 1)
                p == ChainSector(sectors, chain, o)
                b == o % SECTOR_SIZE
            IN  IF p.buf = <<"mini", 0>> /\ p.from + b < p.to
                   /\ (p.from + b) \div MINI_SECTOR_SIZE < Len(mini_data)
                THEN mini_data[((p.from + b) \div MINI_SECTOR_SIZE) + 1]
                ELSE Garbage]

\* The streams the last write() placed: <<did, len(data)>>
PlacedStreams == SelectSeq(streams, LAMBDA st : st[1] < Len(ImageEntries))

\* The piece of the data of stream did that the i-th sector (from 0) of its
\* chain holds when the chain stores the data in order, in sectors of sz bytes
DataPiece(did, n, sz, i) ==
    [buf |-> <<"stream", did>>, from |-> i * sz, to |-> Min((i + 1) * sz, n),
     pad |-> sz - (Min((i + 1) * sz, n) - i * sz)]

----------------------------------------------------------------------------
(* The claims *)

\* The chain of stream did (n bytes) in table has ceil(n / sz) sectors, its
\* last entry is ENDOFCHAIN, and its sectors hold the data in order
StreamReadsBack(table, payloads, entries, did, n, sz) ==
    LET chain == Chain(table, entries[did + 1].starting_sector)
    IN  /\ Len(chain) = SectorsNeeded(n, sz)
        /\ table[chain[Len(chain)] + 1] = ENDOFCHAIN
        /\ \A i \in 1..Len(chain) :
              ReadSector(payloads, chain[i]) = DataPiece(did, n, sz, i - 1)

StreamsReadBack(placed, entries, fatImage, miniFatImage, sectors, miniSectors) ==
    \A k \in 1..Len(placed) :
        placed[k][2] > 0 =>
            IF placed[k][2] < MINI_STREAM_CUTOFF
            THEN StreamReadsBack(miniFatImage, miniSectors, entries,
                                 placed[k][1], placed[k][2], MINI_SECTOR_SIZE)
            ELSE StreamReadsBack(fatImage, sectors, entries,
                                 placed[k][1], placed[k][2], SECTOR_SIZE)

ImageReadsBack(sectors, fatImage) ==
    StreamsReadBack(PlacedStreams, ImageEntries, fatImage,
                    MiniFatImage(sectors, fatImage, fin.mini_fat_data), sectors,
                    ImageMiniSectors(sectors, fatImage, ImageEntries, mini_stream_data))

\* C1: in the image of a builder's write(), every stream added with n > 0
\* bytes has a chain from its entry's starting_sector (in the MiniFAT when
\* n < 4096, in the FAT otherwise) of exactly ceil(n / sz) sectors, each
\* entry naming the next and the last being ENDOFCHAIN, and the payloads of
\* the chain's sectors, cut to n bytes, are the stream's data.
C1_StreamChainsReadBack ==
    FirstImage =>
        ImageReadsBack(ImageSectors, FatImage(ImageSectors, HeaderDifat, LastFatData))

\* A written image with a mini stream that ends inside its second mini-sector
\* and a regular stream that ends inside its ninth sector
C1_Witness ==
    /\ FirstImage
    /\ \E k \in 1..Len(PlacedStreams) : PlacedStreams[k][2] = 65
    /\ \E k \in 1..Len(PlacedStreams) : PlacedStreams[k][2] = 4097

\* The header is one sector; the IDs 0..T-1 are written in this order, one
\* sector each, the payload of ID s starting at offset SECTOR_SIZE * (s + 1)
SectorsLaidOut(header_len, ids, lens, offsets, T) ==
    /\ header_len = SECTOR_SIZE
    /\ Len(ids) = T
    /\ Len(lens) = T
    /\ \A k \in 1..T :
          /\ ids[k] = k - 1
          /\ lens[k] = SECTOR_SIZE
          /\ offsets[k] = SECTOR_SIZE * (ids[k] + 1)
    /\ header_len + SumRange(lens, 1, Len(lens)) = SECTOR_SIZE * (1 + T)

ImageLaidOut(header, ids, lens, T) ==
    /\ \A k \in 1..Len(header) : Len(header[k].value) = header[k].width
    /\ SectorsLaidOut(HeaderLength(header), ids, lens,
                      Offsets(lens, 1, Len(lens), HeaderLength(header)), T)

\* C3: the image a builder's write() produces after any add_storage and
\* add_stream calls is 512 * (1 + T) bytes long, T being the number of sector
\* IDs allocated: the header is 512 bytes, and the sector IDs 0..T-1 are each
\* written once, as 512 bytes, in ascending order, so that sector s starts
\* at offset 512 * (s + 1).
C3_ImageLayout ==
    FirstImage => ImageLaidOut(FileHeader, file.ids, PayloadLens, Len(fat))

\* An image of a builder with a mini stream and a regular stream, whose FAT
\* has more entries than one FAT sector holds
C3_Witness ==
    /\ FirstImage
    /\ Len(fat) > FatEntriesPerSector
    /\ fin.num_mini_fat_sectors > 0
    /\ Len(fin.stream_sectors) >= 4

\* MSGWriter() has not raised
Constructed == msg.stage /= "raised"

\* C2: a message is built by MSGWriter(), setter calls and save(path), and
\* construction and save complete without raising, leaving a non-empty file
\* that starts with D0 CF 11 E0 A1 B1 1A E1.  Every such message starts with
\* MSGWriter(), which must return a writer.
C2_ConstructionCompletes == Constructed /\ msg.error = "none"

IsAdd(op) == op \in {"add_storage", "add_stream"}

\* What an entry is: its name and its type
Identity(e) == [name |-> e.name, entry_type |-> e.entry_type]

\* The type of the entry that a call makes
TypeOf(op) == IF op = "add_storage" THEN STORAGE ELSE STREAM

\* The root is at DID 0 and every entry serializes to ENTRY_BYTES bytes
RootFirstAndEntriesSized(entries) ==
    /\ Len(entries) >= 1
    /\ Identity(At(entries, 0)) = [name |-> RootName, entry_type |-> ROOT]
    /\ \A d \in 0..(Len(entries) - 1) : Len(to_bytes(At(entries, d))) = ENTRY_BYTES

\* A step keeps every entry at its DID, and an add_storage or add_stream
\* call puts its entry at the next DID: one more than the entries added
\* before, the root being DID 0
EntriesKeepTheirDid ==
    /\ Len(directory_entries') >= Len(directory_entries)
    /\ \A d \in 0..(Len(directory_entries) - 1) :
          Identity(At(directory_entries', d)) = Identity(At(directory_entries, d))
    /\ IF IsAdd(ret'.op) /\ ret' /= ret
       THEN /\ Len(directory_entries') = Len(directory_entries) + 1
            /\ ret'.did = Len(directory_entries)
            /\ Identity(At(directory_entries', ret'.did))
                   = [name |-> Take(ret'.name, NAME_MAX), entry_type |-> TypeOf(ret'.op)]
       ELSE Len(directory_entries') = Len(directory_entries)

\* C4: in every state of the builder, after construction and after any
\* add_storage and add_stream calls, the entry at DID 0 is the root entry
\* with type ROOT, the k-th entry added has DID k, and every directory entry
\* serializes to exactly 128 bytes.
C4_DidsAndEntrySize ==
    /\ [](RootFirstAndEntriesSized(directory_entries))
    /\ [][EntriesKeepTheirDid]_vars

\* Two entries were added, one by a call that raised IndexError, one with a
\* name longer than a directory entry holds
C4_Witness ==
    /\ Len(directory_entries) = 3
    /\ \E d \in 1..2 : Len(At(directory_entries, d).name) = NAME_MAX
    /\ ret.outcome = "IndexError"
    /\ Len(PackedEntry(At(directory_entries, 1))) > ENTRY_BYTES

\* The elements of a sequence
Range(seq) == {seq[k] : k \in 1..Len(seq)}

\* The sectors marked FATSECT in table are those of ids, as far as table goes
FatSectMarks(table, ids) ==
    \A s \in 0..(Len(table) - 1) : (table[s + 1] = FATSECT) <=> (s \in ids)

\* C5: after write(), every sector ID that write() made a FAT sector (the
\* IDs in the header's DIFAT array) has the FAT entry FATSECT, and no other
\* sector has the FATSECT mark.
C5_FatSectorsMarked ==
    FirstImage =>
        /\ fin.fat_sector_ids /= <<>>
        /\ Range(HeaderDifat) \subseteq Range(fin.fat_sector_ids)
        /\ Range(fin.fat_sector_ids) \subseteq 0..(Len(fat) - 1)
        /\ FatSectMarks(fat, Range(fin.fat_sector_ids))
        /\ FatSectMarks(FatImage(ImageSectors, HeaderDifat, LastFatData),
                        Range(fin.fat_sector_ids))

\* An image with two FAT sectors and streams in regular and mini-sectors
C5_Witness ==
    /\ FirstImage
    /\ Len(fin.fat_sector_ids) = 2
    /\ fin.num_mini_fat_sectors > 0
    /\ \E k \in 1..Len(PlacedStreams) : PlacedStreams[k][2] >= MINI_STREAM_CUTOFF

\* The data of stream did lies in pieces
StoredIn(pieces, did) == \E k \in 1..Len(pieces) : pieces[k].buf = <<"stream", did>>

\* The piece that starts the data of stream did is piece start
StartsAt(pieces, start, did) ==
    /\ start \in 0..(Len(pieces) - 1)
    /\ pieces[start + 1].buf = <<"stream", did>>
    /\ pieces[start + 1].from = 0

StreamsPlacedBySize(placed, entries, sectors, miniSectors) ==
    \A k \in 1..Len(placed) :
        /\ (0 < placed[k][2] /\ placed[k][2] < MINI_STREAM_CUTOFF) =>
              /\ StartsAt(miniSectors, entries[placed[k][1] + 1].starting_sector, placed[k][1])
              /\ ~StoredIn(sectors, placed[k][1])
        /\ placed[k][2] >= MINI_STREAM_CUTOFF =>
              /\ StartsAt(sectors, entries[placed[k][1] + 1].starting_sector, placed[k][1])
              /\ ~StoredIn(miniSectors, placed[k][1])

\* C6: write() places every stream by its size alone: a stream of more than
\* 0 and less than 4096 bytes lies in mini-sectors only (its starting_sector
\* is a mini-sector and no sector of the FAT holds its data), a stream of
\* 4096 bytes or more lies in regular sectors only (its starting_sector is a
\* sector and the mini stream holds none of its data).
C6_PlacedBySize ==
    FirstImage =>
        StreamsPlacedBySize(PlacedStreams, ImageEntries, ImageSectors,
            ImageMiniSectors(ImageSectors, FatImage(ImageSectors, HeaderDifat, LastFatData),
                             ImageEntries, mini_stream_data))

\* An image with a stream of 4095 bytes and a stream of 4096 bytes
C6_Witness ==
    /\ FirstImage
    /\ \E k \in 1..Len(PlacedStreams) : PlacedStreams[k][2] = MINI_STREAM_CUTOFF - 1
    /\ \E k \in 1..Len(PlacedStreams) : PlacedStreams[k][2] = MINI_STREAM_CUTOFF

\* The starting-sector field of a serialized directory entry: bytes 116..119
StartingSectorField(e) == SubSeq(to_bytes(e), 117, 120)

\* C7: after write(), the serialized directory entry of every stream with
\* zero-length data has starting_sector ENDOFCHAIN (FE FF FF FF), and so has
\* the root entry when there are no mini-sectors.
C7_EmptyStartsAtEndOfChain ==
    FirstImage =>
        /\ \A k \in 1..Len(PlacedStreams) :
              PlacedStreams[k][2] = 0 =>
                  StartingSectorField(ImageEntries[PlacedStreams[k][1] + 1]) = LE(ENDOFCHAIN, 4)
        /\ mini_stream_data = <<>> =>
              StartingSectorField(ImageEntries[1]) = LE(ENDOFCHAIN, 4)

\* The entries on the right_sibling chain that starts at d
RECURSIVE SiblingChain(_, _, _)
SiblingChain(entries, d, fuel) ==
    IF fuel = 0 \/ d \notin 0..(Len(entries) - 1) THEN {}
    ELSE {d} \cup SiblingChain(entries, At(entries, d).right_sibling, fuel - 1)

\* The entries linked under parent p: its child and the child's siblings
Children(entries, p) ==
    IF p \in 0..(Len(entries) - 1)
    THEN SiblingChain(entries, At(entries, p).child, Len(entries))
    ELSE {}

\* The children that the parent of the last call had before the call, and
\* that have the name the call gives
NamesakesOfLastCall ==
    {d \in Children(directory_entries, ret.parent_did) :
        d < ret.did /\ At(directory_entries, d).name = Take(ret.name, NAME_MAX)}

\* The last call failed with error and added no entry
LastCallFailed(error) == ret.outcome = error /\ Len(directory_entries) = ret.did

\* The last call added its entry
LastCallAdded ==
    /\ ret.outcome = "ok"
    /\ Len(directory_entries) = ret.did + 1
    /\ At(directory_entries, ret.did).name = Take(ret.name, NAME_MAX)

\* C8: add_storage or add_stream with a name that a child of the same parent
\* already has fails with DuplicateName and adds no entry; a name that only
\* entries under other parents have is accepted.
C8_DuplicateNameFails ==
    IsAdd(ret.op) =>
        /\ NamesakesOfLastCall /= {} => LastCallFailed("DuplicateName")
        /\ (/\ NamesakesOfLastCall = {}
            /\ ret.parent_did < ret.did
            /\ At(directory_entries, ret.parent_did).entry_type \in {ROOT, STORAGE})
           => LastCallAdded

\* C9: in every state of the builder every entry but the root is linked
\* under the root or under a STORAGE entry created before it; add_storage or
\* add_stream with a parent_did that names a STREAM entry or no entry adds
\* no entry (and changes no link).
C9_ParentIsStorage ==
    /\ \A d \in 1..(Len(directory_entries) - 1) :
          \E p \in 0..(d - 1) :
              /\ At(directory_entries, p).entry_type \in {ROOT, STORAGE}
              /\ d \in Children(directory_entries, p)
    /\ (/\ IsAdd(ret.op)
        /\ \/ ret.parent_did >= ret.did
           \/ At(directory_entries, ret.parent_did).entry_type = STREAM)
       => (ret.outcome /= "ok" /\ Len(directory_entries) = ret.did)

\* The bytes that _write_header wrote for a field
HeaderField(header, name) == (CHOOSE h \in Range(header) : h.field = name).value

\* C10: when the content needs more than 109 FAT sectors, write() emits a
\* DIFAT chain that covers every FAT sector or fails with FileTooLarge; it
\* never completes with a header that lists 109 of more than 109 FAT sectors
\* and declares no DIFAT sector.
C10_DifatOrFileTooLarge ==
    (file.exists /\ Len(fin.fat_sector_ids) > DIFAT_SLOTS) =>
        /\ HeaderField(FileHeader, "num_difat_sectors") /= LE(0, 4)
        /\ HeaderField(FileHeader, "first_difat_sector") /= LE(ENDOFCHAIN, 4)

----------------------------------------------------------------------------
(* The claims about the MSG writer *)

\* The last call on the writer was save: the properties are those that save
\* took to _write_properties
SaveRan == HasWriter /\ msg.last.op = "save"

\* The bytes that encode_value gives for the property of the writer at tag
EncodedProperty(tag) == encode_value(msg.properties[tag]).bytes

\* Bit k of a byte
Bit(byte, k) == (byte \div (2 ^ k)) % 2

\* C11: after any setter calls (set_property on PR_HASATTACH among them) and
\* add_attachment calls followed by save, the PR_HASATTACH value that save
\* serializes is true exactly when the attachment list is not empty.
C11_HasAttachIffAttachments ==
    SaveRan =>
        /\ Has(msg.properties, PropertyTag.PR_HASATTACH)
        /\ (EncodedProperty(PropertyTag.PR_HASATTACH) /= <<0, 0>>)
               <=> (msg.attachments /= <<>>)

\* C12: after any setter calls (set_property on PR_MESSAGE_FLAGS among them)
\* followed by save, the PR_MESSAGE_FLAGS value of save is a 32-bit value
\* with bit 0x01 set, bit 0x10 set exactly when there is an attachment, and
\* every other bit zero.
C12_MessageFlags ==
    SaveRan =>
        /\ Has(msg.properties, PropertyTag.PR_MESSAGE_FLAGS)
        /\ msg.properties[PropertyTag.PR_MESSAGE_FLAGS].prop_type = PT_LONG
        /\ LET bytes == EncodedProperty(PropertyTag.PR_MESSAGE_FLAGS)
           IN  /\ Len(bytes) = 4
               /\ Bit(bytes[1], 0) = 1
               /\ (Bit(bytes[1], 4) = 1) <=> (msg.attachments /= <<>>)
               /\ \A k \in {1, 2, 3, 5, 6, 7} : Bit(bytes[1], k) = 0
               /\ \A i \in 2..4 : bytes[i] = 0

\* save ran on a writer with an attachment, and on one without
C12_Witness ==
    /\ SaveRan
    /\ msg.attachments /= <<>>
    /\ EncodedProperty(PropertyTag.PR_MESSAGE_FLAGS) = <<17, 0, 0, 0>>

\* The display property of a recipient type
DisplayTag(recipient_type) ==
    IF recipient_type = TO THEN PropertyTag.PR_DISPLAY_TO
    ELSE IF recipient_type = CC THEN PropertyTag.PR_DISPLAY_CC
    ELSE PropertyTag.PR_DISPLAY_BCC

\* The places in the recipient list of the recipients of a type
IndexesOfType(recipients, recipient_type) ==
    {k \in 1..Len(recipients) : recipients[k].type = recipient_type}

\* The least element of a non-empty set of numbers
Least(S) == CHOOSE k \in S : \A j \in S : k <= j

\* value reads as the display names of the recipients at indexes, in the
\* order of the list, with "; " between two names and nothing else
RECURSIVE ReadsAsNames(_, _, _)
ReadsAsNames(value, recipients, indexes) ==
    IF indexes = {} THEN value = <<>>
    ELSE LET k    == Least(indexes)
             name == recipients[k].name
             rest == Drop(value, Len(name))
         IN  /\ StartsWith(value, name)
             /\ IF indexes = {k} THEN rest = <<>>
                ELSE /\ StartsWith(rest, <<59, 32>>)
                     /\ ReadsAsNames(Drop(rest, 2), recipients, indexes \ {k})

\* C13: after save, for each recipient type among TO, CC and BCC that has a
\* recipient, the PR_DISPLAY_TO / PR_DISPLAY_CC / PR_DISPLAY_BCC property is
\* the display names of the recipients of that type, and of no other, in
\* the order of the add_recipient calls, joined by "; ".
C13_DisplayRecipients ==
    SaveRan =>
        \A recipient_type \in {TO, CC, BCC} :
            IndexesOfType(msg.recipients, recipient_type) /= {} =>
                /\ Has(msg.properties, DisplayTag(recipient_type))
                /\ msg.properties[DisplayTag(recipient_type)].prop_type = PT_UNICODE
                /\ ReadsAsNames(msg.properties[DisplayTag(recipient_type)].value,
                                msg.recipients,
                                IndexesOfType(msg.recipients, recipient_type))

\* save ran on a writer with two TO recipients of different display names,
\* the one added first being "N"
C13_Witness ==
    /\ SaveRan
    /\ Len(msg.recipients) = 2
    /\ IndexesOfType(msg.recipients, TO) = {1, 2}
    /\ msg.recipients[1].name = <<78>>
    /\ msg.recipients[2].name = <<97, 64, 98>>
    /\ msg.properties[PropertyTag.PR_DISPLAY_TO].value = <<78, 59, 32, 97, 64, 98>>

\* s without its leading whitespace
RECURSIVE LStrip(_)
LStrip(s) == IF s /= <<>> /\ Head(s) \in Whitespace THEN LStrip(Tail(s)) ELSE s

\* s starts with RE: or FW: in any letter case
HasReplyPrefix(s) ==
    Len(s) >= 3 /\ Upper(SubSeq(s, 1, 3)) \in {<<82, 69, 58>>, <<70, 87, 58>>}

\* s with one leading RE: or FW: and the whitespace after it removed
WithoutOnePrefix(s) == IF HasReplyPrefix(s) THEN LStrip(Drop(s, 3)) ELSE s

\* C14: after set_subject(s), PR_SUBJECT is s and PR_CONVERSATION_TOPIC is s
\* with at most one leading RE: or FW: (in any letter case, with the
\* whitespace that follows it) removed: a second prefix stays, and a subject
\* without such a prefix is unchanged.
C14_ConversationTopic ==
    (HasWriter /\ msg.last.op = "set_subject") =>
        /\ msg.properties[PropertyTag.PR_SUBJECT].value = msg.last.arg
        /\ msg.properties[PropertyTag.PR_CONVERSATION_TOPIC].value
               = WithoutOnePrefix(msg.last.arg)

\* C15: set_conversation_index() without a parent stores a
\* PR_CONVERSATION_INDEX of 22 bytes whose first byte is 0x01;
\* set_conversation_index(parent) stores the parent's bytes followed by 5
\* more bytes.
C15_ConversationIndex ==
    (HasWriter /\ msg.last.op = "set_conversation_index") =>
        /\ Has(msg.properties, PropertyTag.PR_CONVERSATION_INDEX)
        /\ msg.properties[PropertyTag.PR_CONVERSATION_INDEX].prop_type = PT_BINARY
        /\ LET index  == msg.properties[PropertyTag.PR_CONVERSATION_INDEX].value
               parent == msg.last.arg
           IN  IF parent = None
               THEN Len(index) = 22 /\ index[1] = 1
               ELSE /\ Len(index) = Len(parent) + 5
                    /\ SubSeq(index, 1, Len(parent)) = parent

\* A reply to a new index was stored: 27 bytes that start with 0x01
C15_Witness ==
    /\ HasWriter
    /\ msg.last.op = "set_conversation_index"
    /\ msg.last.arg /= None
    /\ Len(msg.last.arg) = 22
    /\ Len(msg.properties[PropertyTag.PR_CONVERSATION_INDEX].value) = 27
    /\ msg.properties[PropertyTag.PR_CONVERSATION_INDEX].value[1] = 1

\* The call that a step makes: the step changes the writer
Calls(op) == msg' /= msg /\ msg'.last.op = op

\* A step that leaves the recipient list and the property map alone and
\* ends with a validation error
RejectedAtTheSetter ==
    /\ msg'.last.outcome = "ValidationError"
    /\ msg'.recipients = msg.recipients
    /\ msg'.properties = msg.properties

\* C16: add_recipient with an empty email or with a recipient type outside
\* {1, 2, 3}, and set_sender with an empty email, fail with a validation
\* error at the call and leave the recipient list and the property map as
\* they were.
C16_SetterValidation ==
    [][/\ (/\ Calls("add_recipient")
            /\ \/ msg'.last.arg.email = <<>>
               \/ msg'.last.arg.type \notin {TO, CC, BCC})
           => RejectedAtTheSetter
       /\ (Calls("set_sender") /\ msg'.last.arg.email = <<>>)
           => RejectedAtTheSetter]_vars

\* The last call was a cfb.write that raised
SinkFailed == ret.op = "write" /\ ret.outcome /= "ok"

\* The number of sectors that the last _write_to_stream put into sector_data
SectorsOfImage == Len(StreamSectorData(fin.stream_sectors, 1)) + Len(fin.fat_sector_ids)

\* C17: when the write fails at the sink, the error reaches the caller and
\* the output path holds no partially written image: either there is no
\* file or the file holds every sector of the image
C17_NoPartialImage ==
    SinkFailed => (~file.exists \/ Len(file.ids) = SectorsOfImage)

\* The children of p that have this name and this entry type
ChildNamed(entries, p, name, entry_type) ==
    {d \in Children(entries, p) :
        At(entries, d).name = name /\ At(entries, d).entry_type = entry_type}

\* The names of the streams of the variable-length properties of props
VariableStreams(props) ==
    {get_stream_name(t, props[t].prop_type) :
        t \in {u \in DOMAIN props : ~is_fixed_length(props[u].prop_type)}}

\* The storage d has a __properties_version1.0 stream and one __substg1.0_
\* stream for each variable-length property of props
HoldsProperties(entries, d, props) ==
    /\ ChildNamed(entries, d, PropertiesStreamName, STREAM) /= {}
    /\ \A n \in VariableStreams(props) : ChildNamed(entries, d, n, STREAM) /= {}

\* The storages under the root whose name starts with "__recip_version1.0_#"
RecipientStorages(entries) ==
    {d \in Children(entries, 0) :
        /\ At(entries, d).entry_type = STORAGE
        /\ Take(At(entries, d).name, 20) = Take(RecipientStorageName(0), 20)}

\* C18: after save of a message with R recipients the root storage has
\* exactly R child storages named __recip_version1.0_#{i:08X}, i = 0..R-1,
\* in DID order, each with its __properties_version1.0 stream and one
\* __substg1.0_ stream for each of its variable-length properties
C18_RecipientStorages ==
    SaveRan =>
        LET entries == msg.cfb.directory_entries
            R == Len(msg.recipients)
            StorageOf(i) == ChildNamed(entries, 0, RecipientStorageName(i), STORAGE)
        IN  /\ Cardinality(RecipientStorages(entries)) = R
            /\ \A i \in 0..(R - 1) :
                  /\ Cardinality(StorageOf(i)) = 1
                  /\ \A d \in StorageOf(i) :
                        HoldsProperties(entries, d,
                                        recip_props(msg.recipients[i + 1]).properties)
            /\ \A i \in 0..(R - 2) :
                  \A d \in StorageOf(i), e \in StorageOf(i + 1) : d < e

\* The attachment storage d holds the property tag with this value: the
\* storage has its properties stream, _write_attachment gives the property
\* this value, and a variable-length property has its stream
HoldsValue(entries, d, props, tag, value) ==
    /\ ChildNamed(entries, d, PropertiesStreamName, STREAM) /= {}
    /\ tag \in DOMAIN props
    /\ props[tag].value = value
    /\ ~is_fixed_length(props[tag].prop_type) =>
          ChildNamed(entries, d, get_stream_name(tag, props[tag].prop_type), STREAM) /= {}

\* The attachment storage d holds the property tag
HoldsTag(entries, d, props, tag) ==
    /\ tag \in DOMAIN props
    /\ HoldsValue(entries, d, props, tag, props[tag].value)

\* C19: after save the storage of attachment i holds PR_ATTACH_NUM = i,
\* PR_ATTACH_METHOD = 1 and PR_ATTACH_SIZE = len(data); PR_ATTACH_CONTENT_ID
\* exactly when a content id was given; PR_RENDERING_POSITION = -1 and
\* PR_ATTACHMENT_HIDDEN = true exactly when the attachment is inline; and
\* PR_ATTACH_EXTENSION, with its dot, exactly when the filename has one
C19_AttachmentStorages ==
    SaveRan =>
        \A i \in 0..(Len(msg.attachments) - 1) :
            LET entries == msg.cfb.directory_entries
                a == msg.attachments[i + 1]
                props == attach_props(i, a).properties
                ext == splitext(a.filename)
            IN  /\ Cardinality(ChildNamed(entries, 0, AttachmentStorageName(i), STORAGE)) = 1
                /\ \A d \in ChildNamed(entries, 0, AttachmentStorageName(i), STORAGE) :
                      /\ HoldsValue(entries, d, props, PropertyTag.PR_ATTACH_NUM, i)
                      /\ HoldsValue(entries, d, props, PropertyTag.PR_ATTACH_METHOD, 1)
                      /\ HoldsValue(entries, d, props, PropertyTag.PR_ATTACH_SIZE, Len(a.data))
                      /\ HoldsTag(entries, d, props, PropertyTag.PR_ATTACH_CONTENT_ID)
                            <=> a.content_id /= None
                      /\ HoldsValue(entries, d, props, PropertyTag.PR_RENDERING_POSITION, -1)
                            <=> a.is_inline
                      /\ HoldsValue(entries, d, props, PropertyTag.PR_ATTACHMENT_HIDDEN, TRUE)
                            <=> a.is_inline
                      /\ HoldsTag(entries, d, props, PropertyTag.PR_ATTACH_EXTENSION)
                            <=> ext /= <<>>
                      /\ ext /= <<>> => ext[1] = 46

\* In the first image, every stream of 4096 bytes lies in regular sectors
\* only, with a FAT chain of regular sectors from its starting_sector, and
\* every stream of 4095 bytes lies in mini-sectors only, with a MiniFAT
\* chain of mini mini-sectors
BoundaryStreamsOccupy(regular, mini) ==
    FirstImage =>
        LET fatImage     == FatImage(ImageSectors, HeaderDifat, LastFatData)
            miniFatImage == MiniFatImage(ImageSectors, fatImage, fin.mini_fat_data)
            miniSectors  == ImageMiniSectors(ImageSectors, fatImage, ImageEntries,
                                             mini_stream_data)
        IN  \A k \in 1..Len(PlacedStreams) :
                LET did   == PlacedStreams[k][1]
                    start == ImageEntries[did + 1].starting_sector
                IN  /\ PlacedStreams[k][2] = MINI_STREAM_CUTOFF =>
                          /\ StartsAt(ImageSectors, start, did)
                          /\ ~StoredIn(miniSectors, did)
                          /\ Len(Chain(fatImage, start)) = regular
                    /\ PlacedStreams[k][2] = MINI_STREAM_CUTOFF - 1 =>
                          /\ StartsAt(miniSectors, start, did)
                          /\ ~StoredIn(ImageSectors, did)
                          /\ Len(Chain(miniFatImage, start)) = mini

\* C20 as stated: a stream of exactly 4096 bytes is stored in regular
\* sectors and occupies 9 sectors; a stream of exactly 4095 bytes is stored
\* in mini-sectors and occupies 64 mini-sectors
C20_NineSectors == BoundaryStreamsOccupy(9, 64)

\* C20, amended: a stream of exactly 4096 bytes is stored in regular sectors
\* and occupies 8 sectors, all of them full; a stream of exactly 4095 bytes
\* is stored in mini-sectors and occupies 64 mini-sectors
C20_EightSectors == BoundaryStreamsOccupy(8, 64)

\* A first image with a stream of 4096 bytes that has a sector of its own
\* and a stream of 4095 bytes that has a mini-sector of its own
C20_Witness ==
    /\ FirstImage
    /\ \E k \in 1..Len(PlacedStreams) :
          /\ PlacedStreams[k][2] = MINI_STREAM_CUTOFF
          /\ StoredIn(ImageSectors, PlacedStreams[k][1])
    /\ \E k \in 1..Len(PlacedStreams) :
          /\ PlacedStreams[k][2] = MINI_STREAM_CUTOFF - 1
          /\ StoredIn(mini_stream_data, PlacedStreams[k][1])

----------------------------------------------------------------------------
(* The claims about the layout that write() computes *)

\* C21: at write(), with N the number of FAT entries allocated before the
\* FAT sectors and E = 128, the number F of FAT sectors is the least value
\* with F * E >= N + F, and the FAT emitted into the FAT sectors has exactly
\* F * E entries: the N + F entries of the FAT, then FREESECT, so that every
\* allocated sector, FAT sectors included, has its entry in the image
C21_FatFixedPoint ==
    FirstImage =>
        LET F == fin.num_fat_sectors
            N == Len(fat) - F
            E == FatEntriesPerSector
            image == FatImage(ImageSectors, HeaderDifat, LastFatData)
        IN  /\ F * E >= N + F
            /\ \A G \in 0..(F - 1) : G * E < N + G
            /\ Len(image) = F * E
            /\ \A k \in 1..Len(image) :
                  image[k] = IF k <= N + F THEN fat[k] ELSE FREESECT

\* The stream-size field of a serialized directory entry: bytes 120..127
StreamSizeField(e) == SubSeq(to_bytes(e), 121, 128)

\* C22: in the 128 bytes of to_bytes the 4-byte starting sector is followed
\* directly by the 8-byte little-endian stream size (bytes 120..127), which
\* equals the entry's stream_size: len(data) of add_stream for a stream, the
\* length of the mini-stream container for the root entry
C22_StreamSizeField ==
    FirstImage =>
        /\ \A k \in 1..Len(ImageEntries) :
              /\ StartingSectorField(ImageEntries[k]) = LE(ImageEntries[k].starting_sector, 4)
              /\ StreamSizeField(ImageEntries[k]) = LE(ImageEntries[k].stream_size, 8)
        /\ \A k \in 1..Len(PlacedStreams) :
              ImageEntries[PlacedStreams[k][1] + 1].stream_size = PlacedStreams[k][2]
        /\ ImageEntries[1].stream_size = MINI_SECTOR_SIZE * Len(mini_stream_data)

----------------------------------------------------------------------------
(* The claims about the streams that save writes *)

\* C23: the top-level __properties_version1.0 stream that save writes for a
\* message with R recipients, A attachments and P properties has exactly
\* 24 + 16 * P bytes: 8 zero bytes, the 32-bit values R, A, R, A, then one
\* 16-byte entry for each property
C23_PropertiesStream ==
    SaveRan =>
        LET entries == msg.cfb.directory_entries
            R == Len(msg.recipients)
            A == Len(msg.attachments)
            P == Cardinality(DOMAIN msg.properties)
            header == properties_header(msg.recipients, msg.attachments)
        IN  /\ Len(header) = 24
            /\ SubSeq(header, 1, 8) = Fill(0, 8)
            /\ SubSeq(header, 9, 24) = LE(R, 4) \o LE(A, 4) \o LE(R, 4) \o LE(A, 4)
            /\ Cardinality(ChildNamed(entries, 0, PropertiesStreamName, STREAM)) = 1
            /\ \A d \in ChildNamed(entries, 0, PropertiesStreamName, STREAM) :
                  At(entries, d).stream_size = 24 + 16 * P

\* The 8-byte slot of a 16-byte property entry
Slot(entry) == SubSeq(entry, 9, 16)

\* Every property of props is serialized under the one storage of parents:
\* the storage has its __properties_version1.0 stream; a variable-length
\* property has exactly one stream __substg1.0_TTTTKKKK there, and the slot
\* of its entry is the stream's byte length; a fixed-length property has no
\* stream, and its slot is the encoded value zero-filled to 8 bytes
SerializedUnder(entries, parents, props) ==
    /\ Cardinality(parents) = 1
    /\ \A p \in parents :
          /\ ChildNamed(entries, p, PropertiesStreamName, STREAM) /= {}
          /\ \A tag \in DOMAIN props :
                LET prop    == props[tag]
                    encoded == encode_value(prop).bytes
                    streams_of == ChildNamed(entries, p,
                                      get_stream_name(tag, prop.prop_type), STREAM)
                IN  IF is_fixed_length(prop.prop_type)
                    THEN /\ streams_of = {}
                         /\ Slot(get_fixed_entry(prop)) = encoded \o Fill(0, 8 - Len(encoded))
                    ELSE /\ Cardinality(streams_of) = 1
                         /\ \A d \in streams_of :
                               /\ At(entries, d).stream_size = Len(encoded)
                               /\ Slot(get_fixed_entry(prop)) = LE(At(entries, d).stream_size, 8)

\* C24: every property that save serializes, at message, recipient or
\* attachment level, has for a variable-length type exactly one stream
\* __substg1.0_TTTTKKKK under the storage of its __properties_version1.0
\* stream, whose byte length is the 8-byte slot of its entry, and for a
\* fixed type no stream and the encoded value, zero-filled, in the slot
C24_PropertySlots ==
    SaveRan =>
        LET entries == msg.cfb.directory_entries
        IN  /\ SerializedUnder(entries, {0}, msg.properties)
            /\ \A i \in 1..Len(msg.recipients) :
                  SerializedUnder(entries,
                      ChildNamed(entries, 0, RecipientStorageName(i - 1), STORAGE),
                      recip_props(msg.recipients[i]).properties)
            /\ \A i \in 1..Len(msg.attachments) :
                  SerializedUnder(entries,
                      ChildNamed(entries, 0, AttachmentStorageName(i - 1), STORAGE),
                      attach_props(i - 1, msg.attachments[i]).properties)

----------------------------------------------------------------------------
(* The claims about the links of the directory *)

\* The DIDs of entries
Dids(entries) == 0..(Len(entries) - 1)

\* C25: after any sequence of add_storage / add_stream calls the children of
\* every storage, in the order they were added, form a right-leaning chain:
\* parent.child is the first, right_sibling of each is the next, that of the
\* last is NOSTREAM; left_sibling is NOSTREAM for every entry, and every
\* entry has color BLACK
C25_RightLeaningChain ==
    /\ \A d \in Dids(directory_entries) :
          /\ At(directory_entries, d).left_sibling = NOSTREAM
          /\ At(directory_entries, d).color = BLACK
          /\ At(directory_entries, d).right_sibling /= NOSTREAM =>
                At(directory_entries, d).right_sibling > d
          /\ At(directory_entries, d).child /= NOSTREAM =>
                \A c \in Children(directory_entries, d) :
                    At(directory_entries, d).child <= c
    /\ (IsAdd(ret.op) /\ ret.outcome = "ok") =>
          /\ ret.did \in Children(directory_entries, ret.parent_did)
          /\ At(directory_entries, ret.did).right_sibling = NOSTREAM

\* The links of the directory: <<d, e>> when child, left_sibling or
\* right_sibling of entry d is e, once for each such field
Links(entries) ==
    {l \in Dids(entries) \X {"child", "left_sibling", "right_sibling"} \X Dids(entries) :
        \/ l[2] = "child" /\ At(entries, l[1]).child = l[3]
        \/ l[2] = "left_sibling" /\ At(entries, l[1]).left_sibling = l[3]
        \/ l[2] = "right_sibling" /\ At(entries, l[1]).right_sibling = l[3]}

\* The entries reached from the entries of from by one link
LinkedFrom(entries, from) == {l[3] : l \in {m \in Links(entries) : m[1] \in from}}

\* The entries reached from the entries of from by one link or more, at
\* most n
RECURSIVE ReachedFrom(_, _, _)
ReachedFrom(entries, from, n) ==
    IF n = 0 THEN {}
    ELSE LinkedFrom(entries, from)
         \cup ReachedFrom(entries, LinkedFrom(entries, from), n - 1)

\* C26: in every state of the builder the graph of the child, left_sibling
\* and right_sibling links is a tree rooted at DID 0: no entry is reached
\* from itself by one link or more, and every entry but the root is the
\* target of exactly one link
C26_LinksFormTree ==
    /\ \A d \in Dids(directory_entries) :
          d \notin ReachedFrom(directory_entries, {d}, Len(directory_entries))
    /\ \A d \in Dids(directory_entries) \ {0} :
          Cardinality({l \in Links(directory_entries) : l[3] = d}) = 1

----------------------------------------------------------------------------
(* The claims about the order of the sectors and the header *)

\* The streams of the last write() that lie in regular sectors
RegularPlaced == SelectSeq(PlacedStreams, LAMBDA st : st[2] >= MINI_STREAM_CUTOFF)

\* The first sectors of the chains of the regular streams, in insertion order
RegularStarts ==
    [k \in 1..Len(RegularPlaced) |-> ImageEntries[RegularPlaced[k][1] + 1].starting_sector]

\* The first sector of the mini-stream container, when there are mini-sectors
ContainerStart ==
    IF mini_stream_data /= <<>> THEN <<ImageEntries[1].starting_sector>> ELSE <<>>

\* The first sector of the MiniFAT, when there is one
MiniFatStart ==
    IF mini_fat /= <<>> THEN <<file.header.mini_fat_start>> ELSE <<>>

\* The chains that start at starts were allocated one after the other from
\* sector 0 on: the first starts at 0 and each of the others at the sector
\* after the last of the chain before it (a FAT sector is a chain of one)
AllocatedInOrder(starts, fatImage) ==
    /\ starts[1] = 0
    /\ \A j \in 1..(Len(starts) - 1) :
          starts[j + 1] = starts[j] + (IF starts[j] \in Range(HeaderDifat) THEN 1
                                       ELSE Len(Chain(fatImage, starts[j])))

\* C27 as stated: write() assigns the sector IDs first to the mini-stream
\* container (when there are mini-sectors), then to the directory, then to
\* the MiniFAT, then to each regular stream in insertion order, and last to
\* the FAT sectors; so with a mini stream the container starts at sector 0
\* and every regular stream starts above the directory
C27_ContainerFirst ==
    FirstImage =>
        /\ AllocatedInOrder(ContainerStart \o <<file.header.dir_start_sector>>
                                \o MiniFatStart \o RegularStarts \o HeaderDifat,
                            FatImage(ImageSectors, HeaderDifat, LastFatData))
        /\ mini_stream_data /= <<>> =>
              /\ ImageEntries[1].starting_sector = 0
              /\ \A k \in 1..Len(RegularStarts) :
                    RegularStarts[k] > file.header.dir_start_sector

\* C27, amended: write() assigns the sector IDs first to each regular stream
\* in insertion order, then to the mini-stream container (when there are
\* mini-sectors), then to the directory, then to the MiniFAT, and last to
\* the FAT sectors; so the first regular stream starts at sector 0, and the
\* directory starts above every regular stream and above the container
C27_RegularStreamsFirst ==
    FirstImage =>
        /\ AllocatedInOrder(RegularStarts \o ContainerStart
                                \o <<file.header.dir_start_sector>>
                                \o MiniFatStart \o HeaderDifat,
                            FatImage(ImageSectors, HeaderDifat, LastFatData))
        /\ \A k \in 1..Len(RegularStarts) :
              RegularStarts[k] < file.header.dir_start_sector
        /\ \A k \in 1..Len(ContainerStart) :
              ContainerStart[k] < file.header.dir_start_sector

\* A first image with a regular stream, a mini stream, the directory, the
\* MiniFAT and the FAT
C27_Witness ==
    /\ FirstImage
    /\ RegularStarts /= <<>>
    /\ ContainerStart /= <<>>
    /\ MiniFatStart /= <<>>
    /\ HeaderDifat /= <<>>

\* The values of the DIFAT slots of the header, in order
DifatSlots(header) ==
    LET slots == SelectSeq(header, LAMBDA h : h.field = "difat")
    IN  [i \in 1..Len(slots) |-> slots[i].value]

\* The chain that the last write() allocated for the MiniFAT, <<>> if none
MiniFatSectors ==
    LET items == SelectSeq(fin.stream_sectors, LAMBDA item : item.key = -3)
    IN  IF items = <<>> THEN <<>> ELSE items[1].sectors

\* C28: the header that write() writes is consistent with the allocation:
\* the FAT-sector count is the number F of FAT sectors, the first directory
\* sector is the first sector of the directory chain, the first MiniFAT
\* sector is the first sector of the MiniFAT chain and the MiniFAT sector
\* count is that chain's length (ENDOFCHAIN and 0 when there is no mini
\* stream), and DIFAT slot i is the i-th FAT sector ID for i < min(F, 109)
\* and FREESECT in the remaining slots
C28_HeaderMatchesAllocation ==
    file.exists =>
        LET F == Len(fin.fat_sector_ids)
            difat == DifatSlots(FileHeader)
        IN  /\ F = fin.num_fat_sectors
            /\ HeaderField(FileHeader, "num_fat_sectors") = LE(F, 4)
            /\ HeaderField(FileHeader, "first_dir_sector") = LE(fin.dir_sectors[1], 4)
            /\ HeaderField(FileHeader, "first_mini_fat_sector") =
                  (IF mini_stream_data = <<>> THEN LE(ENDOFCHAIN, 4)
                   ELSE LE(MiniFatSectors[1], 4))
            /\ HeaderField(FileHeader, "num_mini_fat_sectors") = LE(Len(MiniFatSectors), 4)
            /\ mini_stream_data = <<>> <=> MiniFatSectors = <<>>
            /\ Len(difat) = DIFAT_SLOTS
            /\ \A i \in 1..DIFAT_SLOTS :
                  difat[i] = IF i <= Min(F, DIFAT_SLOTS)
                             THEN LE(fin.fat_sector_ids[i], 4) ELSE LE(FREESECT, 4)

\* An image with more FAT sectors than DIFAT slots and with a MiniFAT
C28_Witness ==
    /\ file.exists
    /\ Len(fin.fat_sector_ids) > DIFAT_SLOTS
    /\ MiniFatSectors /= <<>>

----------------------------------------------------------------------------
(* The claims about the mini stream *)

\* len(self.mini_stream_data) after the last write()
MiniStreamLen ==
    SumRange([k \in 1..Len(mini_stream_data) |-> PayloadLen(mini_stream_data[k])],
             1, Len(mini_stream_data))

\* The non-empty streams of the last write() below the mini-stream cutoff
MiniPlaced ==
    SelectSeq(PlacedStreams, LAMBDA st : st[2] > 0 /\ st[2] < MINI_STREAM_CUTOFF)

\* The mini-sectors of the k-th of them: its chain in the MiniFAT
MiniRun(k) == Chain(mini_fat, ImageEntries[MiniPlaced[k][1] + 1].starting_sector)

\* The chains that _write_to_stream allocated for the mini-stream container
ContainerChains ==
    SelectSeq(fin.stream_sectors, LAMBDA item : item.key = -1)

\* C29: after the first write() of a builder the MiniFAT has
\* len(mini_stream_data) / 64 entries, the mini-sectors of each stream below
\* the cutoff are consecutive and those of two such streams are disjoint,
\* the root entry's stream_size is 64 times the number of MiniFAT entries,
\* and the mini-stream container has a FAT chain exactly when there is a
\* non-empty stream below the cutoff
C29_MiniStreamBookkeeping ==
    FirstImage =>
        /\ MINI_SECTOR_SIZE * Len(mini_fat) = MiniStreamLen
        /\ \A k \in 1..Len(MiniPlaced) :
              MiniRun(k) = [i \in 1..SectorsNeeded(MiniPlaced[k][2], MINI_SECTOR_SIZE) |->
                              ImageEntries[MiniPlaced[k][1] + 1].starting_sector + (i - 1)]
        /\ \A j, k \in 1..Len(MiniPlaced) :
              j /= k => Range(MiniRun(j)) \cap Range(MiniRun(k)) = {}
        /\ ImageEntries[1].stream_size = MINI_SECTOR_SIZE * Len(mini_fat)
        /\ ContainerChains /= <<>> <=> MiniPlaced /= <<>>
        /\ \A k \in 1..Len(ContainerChains) :
              /\ ContainerChains[k].sectors /= <<>>
              /\ ContainerChains[k].sectors =
                    Chain(FatImage(ImageSectors, HeaderDifat, LastFatData),
                          ImageEntries[1].starting_sector)

\* Two streams below the cutoff, one of them of more than one mini-sector,
\* went through the first write()
C29_Witness ==
    /\ FirstImage
    /\ Len(MiniPlaced) = 2
    /\ \E k \in 1..2 : Len(MiniRun(k)) > 1

----------------------------------------------------------------------------
(* The claims about the names of the entries that save adds *)

\* No two children of one parent have the same name
NoNamesakes(entries) ==
    \A p \in 0..(Len(entries) - 1) :
        \A d, e \in Children(entries, p) :
            d /= e => At(entries, d).name /= At(entries, e).name

\* The tags of the variable-length properties of props
VariableTags(props) == {u \in DOMAIN props : ~is_fixed_length(props[u].prop_type)}

\* The names that _write_properties, _write_recipient and _write_attachment
\* give to the streams of props: "__properties_version1.0" and the stream
\* name of each variable-length property; they are pairwise distinct when
\* there are as many names as streams
DistinctStreamNames(props) ==
    Cardinality({PropertiesStreamName} \cup VariableStreams(props))
        = 1 + Cardinality(VariableTags(props))

\* The names that save gives to the entries under the root: those of the
\* streams of self.properties, of the recipient and attachment storages, and
\* of the __nameid_version1.0 storage
RootNames(w) ==
    {PropertiesStreamName} \cup VariableStreams(w.properties)
    \cup {RecipientStorageName(i) : i \in 0..(Len(w.recipients) - 1)}
    \cup {AttachmentStorageName(i) : i \in 0..(Len(w.attachments) - 1)}
    \cup {NameidStorageName}

====
